---- MODULE Spec2Model ----
(***************************************************************************)
(* A model of the token codecs of jam: the JWT codec (jam.jwt.module.JWT)  *)
(* and the PASETO v1/v2 codecs (jam.paseto.v1, jam.paseto.v2).             *)
(*                                                                         *)
(* Byte strings and text are sequences of numbers 0..255 (text: the        *)
(* character codes).  base64url, PAE, the token layout and every check of  *)
(* the codecs are computed on those sequences as the code computes them.   *)
(* The primitives of the cryptographic libraries (HMAC, HKDF, AES-CTR,     *)
(* RSA, ECDSA, XChaCha20-Poly1305) are ideal functions: a tag or signature *)
(* carries, in its first bytes, the key and the message it was made for,   *)
(* so two of them are equal only when made from the same key and message.  *)
(***************************************************************************)
EXTENDS Integers, Sequences, FiniteSets, TLC

VARIABLES
    jwt_token,   \* the JWT in flight: its text
    jwt_made,    \* how jwt_token was made: codec, payload, bit flipped since
    jwt_call,    \* the last JWT call and what it returned or raised
    pas_token,   \* the PASETO in flight: its text
    pas_made,    \* how pas_token was made: codec, payload, footer, byte changed
    pas_call,    \* the last PASETO call and what it returned or raised
    pae_in,      \* the two piece lists given to __pae__
    pae_out,     \* what the two __pae__ calls returned
    jam_inst,    \* the constructed JWT codec or Jam instance
    jam_call,    \* the last call of the construction scenario and its result
    sh_inst,     \* the codec instance two callers share, and how it was constructed
    sh_procs,    \* each caller's position in its call, what it read and what it got
    jam_list,    \* the white or black list of the Jam instance: its type and tokens
    clock,       \* the current time, in seconds
    ses_inst,    \* the session module: its backend, TTL, encryption, id factory
    ses_db,      \* the session storage: the hashes of Redis or the documents of TinyDB
    ses_log,     \* what create, update and delete were asked to do, per session id
    ses_call,    \* the last session call and what it returned or raised
    ses_procs    \* each client's position inside its session call

jwtVars == <<jwt_token, jwt_made, jwt_call>>
pasVars == <<pas_token, pas_made, pas_call>>
paeVars == <<pae_in, pae_out>>
jamVars == <<jam_inst, jam_call>>
shVars == <<sh_inst, sh_procs>>
sesVars == <<ses_inst, ses_db, ses_log, ses_call, ses_procs>>
vars == <<jwt_token, jwt_made, jwt_call, pas_token, pas_made, pas_call,
          pae_in, pae_out, jam_inst, jam_call, sh_inst, sh_procs, jam_list,
          clock, ses_inst, ses_db, ses_log, ses_call, ses_procs>>

\* what the actions of one codec leave alone
notCodecs == <<shVars, jam_list, clock, sesVars>>
notJWT == <<pasVars, paeVars, jamVars, notCodecs>>
notPaseto == <<jwtVars, paeVars, jamVars, notCodecs>>
notPae == <<jwtVars, pasVars, jamVars, notCodecs>>
notJam == <<jwtVars, pasVars, paeVars, notCodecs>>
notShared == <<jwtVars, pasVars, paeVars, jamVars, jam_list, clock, sesVars>>
notGuard == <<jwt_made, jwt_call, pasVars, paeVars, shVars, sesVars>>
notSessions == <<jwtVars, pasVars, paeVars, jamVars, shVars, jam_list>>

(***************************************************************************)
(* Python values.                                                          *)
(***************************************************************************)
None == [py_none |-> TRUE]

Min(a, b) == IF a < b THEN a ELSE b
Max(a, b) == IF a < b THEN b ELSE a

\* s[a:b] of Python, 0-based, for 0 <= a and 0 <= b
Slice(s, a, b) == SubSeq(s, a + 1, Min(b, Len(s)))

\* s[-n:] and s[:-n] of Python for n > 0
LastN(s, n) == SubSeq(s, Max(1, Len(s) - n + 1), Len(s))
DropLastN(s, n) == SubSeq(s, 1, Len(s) - n)

StartsWith(s, p) == Len(s) >= Len(p) /\ SubSeq(s, 1, Len(p)) = p

(***************************************************************************)
(* base64url: base64.urlsafe_b64encode / urlsafe_b64decode of the standard *)
(* library, as jam.paseto.utils wraps them.                                *)
(***************************************************************************)
B64Alphabet ==
    <<65, 66, 67, 68, 69, 70, 71, 72, 73, 74, 75, 76, 77, 78, 79, 80, 81, 82,
      83, 84, 85, 86, 87, 88, 89, 90, 97, 98, 99, 100, 101, 102, 103, 104,
      105, 106, 107, 108, 109, 110, 111, 112, 113, 114, 115, 116, 117, 118,
      119, 120, 121, 122, 48, 49, 50, 51, 52, 53, 54, 55, 56, 57, 45, 95>>

PadChar == 61

\* the value of a character in the decoder's table, -1 when it has none:
\* urlsafe_b64decode maps '-' and '_' to '+' and '/' and then decodes with
\* the standard alphabet, so '+' (43) and '/' (47) are accepted as well
B64Table ==
    [c \in 0..255 |->
        IF c = 43 THEN 62
        ELSE IF c = 47 THEN 63
        ELSE IF \E i \in 1..64 : B64Alphabet[i] = c
             THEN (CHOOSE i \in 1..64 : B64Alphabet[i] = c) - 1
             ELSE -1]

\* the 4 characters of a 3-byte group
B64Group(b1, b2, b3) ==
    LET n == b1 * 65536 + b2 * 256 + b3
    IN  <<B64Alphabet[(n \div 262144) + 1],
          B64Alphabet[((n \div 4096) % 64) + 1],
          B64Alphabet[((n \div 64) % 64) + 1],
          B64Alphabet[(n % 64) + 1]>>

\* base64.urlsafe_b64encode(bv).replace(b"=", b"")
base64url_encode(data) ==
    LET full == Len(data) \div 3
        rest == Len(data) % 3
        nchars == 4 * full + (IF rest = 0 THEN 0 ELSE rest + 1)
        byteAt(i) == IF i <= Len(data) THEN data[i] ELSE 0
        group(g) == B64Group(byteAt(3 * g + 1), byteAt(3 * g + 2), byteAt(3 * g + 3))
    IN  [i \in 1..nchars |-> group((i - 1) \div 4)[((i - 1) % 4) + 1]]

\* binascii.a2b_base64 (not strict) scanning text v followed by npad '=':
\* characters outside the table are skipped; an '=' met with 2 or 3
\* characters of a group pending, once enough '=' were seen since the last
\* table character to fill the group, ends the decoding; other '=' are
\* skipped.  The result is <<number of table characters consumed,
\* "done" | "end">>.
B64Scan(v, npad) ==
    LET at(i) == IF i <= Len(v) THEN v[i] ELSE PadChar
        valid(i) == at(i) # PadChar /\ B64Table[at(i)] # -1
        nvalid(i) == Cardinality({j \in 1..(i - 1) : valid(j)})
        pads(i) ==
            Cardinality({j \in 1..i : at(j) = PadChar
                                      /\ \A k \in (j + 1)..i : ~valid(k)})
        ends(i) ==
            /\ at(i) = PadChar
            /\ nvalid(i) % 4 >= 2
            /\ (nvalid(i) % 4) + pads(i) >= 4
        stops == {i \in 1..(Len(v) + npad) : ends(i)}
    IN  IF stops = {}
        THEN <<nvalid(Len(v) + npad + 1), "end">>
        ELSE <<nvalid(CHOOSE i \in stops : \A j \in stops : i <= j), "done">>

\* base64.urlsafe_b64decode(v + b"=" * npad): [ok, value]; the bits of the
\* last character that do not fill a byte are dropped
urlsafe_b64decode(v, npad) ==
    IF \E i \in 1..Len(v) : v[i] > 127
    THEN [ok |-> FALSE, value |-> <<>>]
    ELSE
    LET scan == B64Scan(v, npad)
        n == scan[1]
        q == n % 4
        vals == SelectSeq(v, LAMBDA c : c # PadChar /\ B64Table[c] # -1)
        nbytes == 3 * (n \div 4) + (IF q = 0 THEN 0 ELSE q - 1)
        sx(k) == B64Table[vals[k]]
        byteAt(j) ==
            LET g == 4 * ((j - 1) \div 3)
                r == (j - 1) % 3
            IN  IF r = 0 THEN sx(g + 1) * 4 + (sx(g + 2) \div 16)
                ELSE IF r = 1 THEN (sx(g + 2) % 16) * 16 + (sx(g + 3) \div 4)
                ELSE (sx(g + 3) % 4) * 64 + sx(g + 4)
    IN  IF scan[2] = "end" /\ q # 0
        THEN [ok |-> FALSE, value |-> <<>>]
        ELSE [ok |-> TRUE, value |-> [j \in 1..nbytes |-> byteAt(j)]]

\* jam.paseto.utils.base64url_decode: pad to a multiple of 4, then decode
base64url_decode(v) ==
    LET rem == Len(v) % 4
    IN  urlsafe_b64decode(v, IF rem > 0 THEN 4 - rem ELSE 0)

(***************************************************************************)
(* The ideal primitives.  Fp is a polynomial fingerprint of a byte string  *)
(* (any change of a single byte changes it); IdealBytes(n, a, b, c) is the *)
(* n-byte output of a primitive keyed by a over message fingerprint b with *)
(* one byte c of domain separation and randomness: its first five bytes    *)
(* spell a, b and c, so different inputs give different outputs.           *)
(***************************************************************************)
RECURSIVE FpRange(_, _, _)
FpRange(s, lo, hi) ==
    IF lo > hi THEN 0
    ELSE IF lo = hi THEN ((((lo * lo) % 40009) * 31 + 17 * lo + 1) % 40009) * (s[lo] + 1)
    ELSE LET mid == (lo + hi) \div 2
         IN  (FpRange(s, lo, mid) + FpRange(s, mid + 1, hi)) % 40009

Fp(s) == (FpRange(s, 1, Len(s)) + 7 * Len(s)) % 40009

IdealBytes(n, a, b, c) ==
    [i \in 1..n |->
        IF i = 1 THEN a \div 256
        ELSE IF i = 2 THEN a % 256
        ELSE IF i = 3 THEN b \div 256
        ELSE IF i = 4 THEN b % 256
        ELSE IF i = 5 THEN c
        ELSE (a + 7 * b + 13 * i + c) % 256]

\* digest size of hashlib.sha256 / sha384 / sha512, in bytes
HashLen(h) == IF h = "sha256" THEN 32 ELSE IF h = "sha384" THEN 48 ELSE 64

HashId(h) == IF h = "sha256" THEN 1 ELSE IF h = "sha384" THEN 2 ELSE 3

\* hmac.new(key, msg, hash).digest()
hmac_digest(key, msg, h) == IdealBytes(HashLen(h), Fp(key), Fp(msg), HashId(h))

\* a comparison that accepts every digest: the fault C6 is checked against
compare_digest_accepts_all(a, b) == TRUE

\* hmac.compare_digest(a, b)
compare_digest(a, b) == a = b

(***************************************************************************)
(* Key material.  A value is [t, v]: t the Python type, v its content:     *)
(* the characters of a str, the bytes of a bytes, <<id, key_size>> of a    *)
(* key object of the cryptography library.                                 *)
(***************************************************************************)
Str(chars) == [t |-> "str", v |-> chars]
Bytes(b) == [t |-> "bytes", v |-> b]
KeyObj(type, id, bits) == [t |-> type, v |-> <<id, bits>>]

PrivateTypes == {"RSAPrivateKey", "ECPrivateKey", "Ed25519PrivateKey"}
PublicTypes == {"RSAPublicKey", "ECPublicKey", "Ed25519PublicKey"}

FamilyOf(type) ==
    IF type \in {"RSAPrivateKey", "RSAPublicKey"} THEN "RSA"
    ELSE IF type \in {"ECPrivateKey", "ECPublicKey"} THEN "EC"
    ELSE "Ed25519"

FamilyChar(f) == IF f = "RSA" THEN 82 ELSE IF f = "EC" THEN 69 ELSE 68

\* key.public_key() of a private key object
public_key_of(k) ==
    [t |-> IF k.t = "RSAPrivateKey" THEN "RSAPublicKey"
           ELSE IF k.t = "ECPrivateKey" THEN "ECPublicKey"
           ELSE "Ed25519PublicKey",
     v |-> k.v]

\* the number that stands for a key pair in the ideal primitives
PairFp(k) == 1000 + 10 * FamilyChar(FamilyOf(k.t)) + k.v[1]

PemBeginText == <<45, 45, 45, 45, 45, 66, 69, 71, 73, 78, 32>>
PemPrivateText ==
    PemBeginText \o <<80, 82, 73, 86, 65, 84, 69, 32, 75, 69, 89, 45, 45, 45, 45, 45, 10>>
PemPublicText ==
    PemBeginText \o <<80, 85, 66, 76, 73, 67, 32, 75, 69, 89, 45, 45, 45, 45, 45, 10>>

\* the PEM text of a key object: the armour line, then the key
PemOf(k) ==
    (IF k.t \in PrivateTypes THEN PemPrivateText ELSE PemPublicText)
        \o <<FamilyChar(FamilyOf(k.t)), k.v[1], k.v[2] \div 16>>

PemBody(data, head) ==
    LET b == SubSeq(data, Len(head) + 1, Len(data))
        fam == IF b[1] = 82 THEN "RSA" ELSE IF b[1] = 69 THEN "EC" ELSE "Ed25519"
    IN  [fam |-> fam, id |-> b[2], bits |-> b[3] * 16]

\* serialization.load_pem_private_key(data, password=None): [ok, value]
load_pem_private_key(data) ==
    IF StartsWith(data, PemPrivateText) /\ Len(data) = Len(PemPrivateText) + 3
    THEN LET b == PemBody(data, PemPrivateText)
         IN  [ok |-> TRUE,
              value |-> KeyObj(IF b.fam = "RSA" THEN "RSAPrivateKey"
                               ELSE IF b.fam = "EC" THEN "ECPrivateKey"
                               ELSE "Ed25519PrivateKey", b.id, b.bits)]
    ELSE [ok |-> FALSE, value |-> None]

\* serialization.load_pem_public_key(data): [ok, value]
load_pem_public_key(data) ==
    IF StartsWith(data, PemPublicText) /\ Len(data) = Len(PemPublicText) + 3
    THEN LET b == PemBody(data, PemPublicText)
         IN  [ok |-> TRUE,
              value |-> KeyObj(IF b.fam = "RSA" THEN "RSAPublicKey"
                               ELSE IF b.fam = "EC" THEN "ECPublicKey"
                               ELSE "Ed25519PublicKey", b.id, b.bits)]
    ELSE [ok |-> FALSE, value |-> None]

(***************************************************************************)
(* Signatures of the cryptography library.  scheme: 1 PKCS1v15, 2 PSS,     *)
(* 3 ECDSA; PSS and ECDSA are randomized, r is the randomness of one call. *)
(***************************************************************************)
SigByte(scheme, h, r) == 16 * scheme + 4 * HashId(h) + r

\* private_key.sign(data, padding, hash) of an RSA private key:
\* key_size / 8 bytes
rsa_sign(key, data, scheme, h, r) ==
    IdealBytes(key.v[2] \div 8, PairFp(key), Fp(data), SigByte(scheme, h, r))

\* public_key.verify(signature, data, padding, hash) of an RSA public key:
\* TRUE when it does not raise InvalidSignature
rsa_verify(key, sig, data, scheme, h) ==
    /\ Len(sig) = key.v[2] \div 8
    /\ \E r \in 0..3 : sig = rsa_sign(key, data, scheme, h, r)
    /\ (scheme = 1 => sig[5] = SigByte(1, h, 0))

\* the byte width of r and s: (key.curve.key_size + 7) // 8
CurveBytes(key) == (key.v[2] + 7) \div 8

\* private_key.sign(data, ec.ECDSA(hash)) and decode_dss_signature: the
\* pair (r, s) as two big-endian strings of CurveBytes(key) bytes
ecdsa_sign_rs(key, data, h, r) ==
    IdealBytes(2 * CurveBytes(key), PairFp(key), Fp(data), SigByte(3, h, r))

\* int.from_bytes(b, "big") as the byte string without its leading zeros
StripZeros(b) ==
    LET nz == {i \in 1..Len(b) : b[i] # 0}
    IN  IF nz = {} THEN <<>>
        ELSE SubSeq(b, CHOOSE i \in nz : \A j \in nz : i <= j, Len(b))

\* public_key.verify(encode_dss_signature(r, s), data, ec.ECDSA(hash))
ecdsa_verify(key, rInt, sInt, data, h) ==
    \E r \in 0..3 :
        LET good == ecdsa_sign_rs(key, data, h, r)
            n == CurveBytes(key)
        IN  /\ rInt = StripZeros(SubSeq(good, 1, n))
            /\ sInt = StripZeros(SubSeq(good, n + 1, 2 * n))

(***************************************************************************)
(* The serializer (jam.encoders.JsonEncoder) on the documents of the       *)
(* model.  A Python mapping is a record of tagged values <<type, text>>;   *)
(* its JSON text is the sorted-keys, compact text json.dumps writes.       *)
(***************************************************************************)
Algs ==
    {"HS256", "HS384", "HS512", "RS256", "RS384", "RS512",
     "ES256", "ES384", "ES512", "PS256", "PS384", "PS512"}

\* identifiers outside the Literal of JWT.__init__
UnsupportedAlgs == {"none", "ES999"}

\* the branch alg.startswith selects ("" when none does) and the hash
\* alg[2:] selects
AlgPrefix(alg) ==
    IF alg \in {"HS256", "HS384", "HS512"} THEN "HS"
    ELSE IF alg \in {"RS256", "RS384", "RS512"} THEN "RS"
    ELSE IF alg \in {"ES256", "ES384", "ES512", "ES999"} THEN "ES"
    ELSE IF alg \in {"PS256", "PS384", "PS512"} THEN "PS"
    ELSE ""

AlgHash(alg) ==
    IF alg \in {"HS256", "RS256", "ES256", "PS256"} THEN "sha256"
    ELSE IF alg \in {"HS384", "RS384", "ES384", "PS384"} THEN "sha384"
    ELSE "sha512"

AlgText(alg) ==
    IF alg = "none" THEN <<110, 111, 110, 101>>
    ELSE IF alg = "ES999" THEN <<69, 83, 57, 57, 57>>
    ELSE
    (IF AlgPrefix(alg) = "HS" THEN <<72, 83>>
     ELSE IF AlgPrefix(alg) = "RS" THEN <<82, 83>>
     ELSE IF AlgPrefix(alg) = "ES" THEN <<69, 83>>
     ELSE <<80, 83>>)
    \o (IF AlgHash(alg) = "sha256" THEN <<50, 53, 54>>
        ELSE IF AlgHash(alg) = "sha384" THEN <<51, 56, 52>>
        ELSE <<53, 49, 50>>)

\* {"typ": "jwt", "alg": alg}, the header JWT.encode builds
HeaderOf(alg) == [alg |-> <<"str", alg>>, typ |-> <<"str", "jwt">>]

\* {"alg":"<alg>","typ":"jwt"}
HeaderJson(alg) ==
    <<123, 34, 97, 108, 103, 34, 58, 34>> \o AlgText(alg)
        \o <<34, 44, 34, 116, 121, 112, 34, 58, 34, 106, 119, 116, 34, 125>>

\* the payloads and footers of the model
PayloadSub == [sub |-> <<"str", "u1">>]
PayloadUser == [user_id |-> <<"int", "123">>]
\* {"exp": t}, a payload that expires at the time t (one digit)
PayloadExp(t) == [exp |-> <<"int", t>>]
FooterKid == [kid |-> <<"str", "x">>]
EmptyDict == [x \in {} |-> <<"str", "">>]
\* the strings "x" and "" given as a footer
FooterText == [t |-> "str", v |-> <<120>>]
EmptyText == [t |-> "str", v |-> <<>>]

Payloads == {PayloadSub, PayloadUser}

\* bound: the clock runs from 0 to MaxClock seconds
MaxClock == 2

Documents == {HeaderOf(a) : a \in Algs} \cup Payloads
                \cup {FooterKid, EmptyDict, FooterText, EmptyText}
                \cup {PayloadExp(t) : t \in 0..MaxClock}

\* json.dumps(var, sort_keys=True, separators=(",", ":")).encode("utf8")
JsonText(d) ==
    IF d = PayloadSub THEN <<123, 34, 115, 117, 98, 34, 58, 34, 117, 49, 34, 125>>
    ELSE IF d = PayloadUser
    THEN <<123, 34, 117, 115, 101, 114, 95, 105, 100, 34, 58, 49, 50, 51, 125>>
    ELSE IF d = FooterKid THEN <<123, 34, 107, 105, 100, 34, 58, 34, 120, 34, 125>>
    ELSE IF d = EmptyDict THEN <<123, 125>>
    ELSE IF d \in {FooterText, EmptyText} THEN <<34>> \o d.v \o <<34>>
    ELSE IF DOMAIN d = {"exp"}
    THEN <<123, 34, 101, 120, 112, 34, 58, 48 + d.exp[2], 125>>
    ELSE HeaderJson(d.alg[2])

JsonEncoder_dumps(d) == JsonText(d)

\* json.loads(var): [ok, value]; a text that is no document raises
JsonEncoder_loads(text) ==
    IF \E d \in Documents : JsonText(d) = text
    THEN [ok |-> TRUE, value |-> CHOOSE d \in Documents : JsonText(d) = text]
    ELSE [ok |-> FALSE, value |-> None]

(***************************************************************************)
(* Results of calls: a value returned, or an exception raised (its class   *)
(* and the fixed leading words of its message).  ops lists the             *)
(* cryptographic operations the call invoked, in order.                    *)
(***************************************************************************)
Return(v, ops) == [ok |-> TRUE, value |-> v, err |-> <<>>, ops |-> ops]
Raise(cls, msg, ops) == [ok |-> FALSE, value |-> None, err |-> <<cls, msg>>, ops |-> ops]

Dot == <<46>>

\* text.split("."): the list of the segments between the dots
SplitDots(s) ==
    LET dots == {i \in 1..Len(s) : s[i] = 46}
        dot(k) == IF k = 0 THEN 0
                  ELSE IF k > Cardinality(dots) THEN Len(s) + 1
                  ELSE CHOOSE i \in dots : Cardinality({j \in dots : j < i}) = k - 1
    IN  [k \in 1..(Cardinality(dots) + 1) |-> SubSeq(s, dot(k - 1) + 1, dot(k) - 1)]

(***************************************************************************)
(* jam.jwt.utils.base64url_encode / base64url_decode: the Base64url codec  *)
(* of the JWT module, the same codec as jam.paseto.utils.                  *)
(***************************************************************************)
jwt_base64url_encode(data) == base64url_encode(data)
jwt_base64url_decode(v) == base64url_decode(v)

(***************************************************************************)
(* jam.jwt.module.JWT.  A codec is [alg, secret], fixed by __init__.       *)
(***************************************************************************)
JWT_init(alg, secret) == [alg |-> alg, secret |-> secret]

\* the private key JWT.__sign signs with: a str secret is PEM text to load,
\* anything else is used as it is
JWT_private_key(c) ==
    IF c.secret.t = "str"
    THEN load_pem_private_key(c.secret.v)
    ELSE [ok |-> TRUE, value |-> c.secret]

\* JWT.__sign(signature_input): the base64url signature; r is the randomness
\* of a PSS or ECDSA signature
JWT_sign(c, input, r) ==
    LET h == AlgHash(c.alg)
        fam == AlgPrefix(c.alg)
        loaded == JWT_private_key(c)
        key == loaded.value
    IN  IF fam = "HS"
        THEN IF c.secret.t \in {"str", "bytes"}
             THEN Return(jwt_base64url_encode(hmac_digest(c.secret.v, input, h)),
                         <<"hmac.new">>)
             ELSE Raise("TypeError", "Invalid secret type for HMAC algorithm", <<>>)
        ELSE IF fam = ""
        THEN Raise("ValueError", "Unsupported algorithm", <<>>)
        ELSE IF fam = "ES" /\ c.alg \notin {"ES256", "ES384", "ES512"}
        THEN Raise("ValueError", "Unsupported ECDSA algorithm", <<>>)
        ELSE IF ~loaded.ok
        THEN Raise("ValueError", "Could not deserialize key data", <<>>)
        ELSE IF fam = "RS"
        THEN IF key.t = "RSAPrivateKey"
             THEN Return(jwt_base64url_encode(rsa_sign(key, input, 1, h, 0)), <<"sign">>)
             ELSE Raise("AttributeError", "sign", <<>>)
        ELSE IF fam = "ES"
        THEN IF key.t = "ECPrivateKey"
             THEN Return(jwt_base64url_encode(ecdsa_sign_rs(key, input, h, r)), <<"sign">>)
             ELSE Raise("AttributeError", "sign", <<>>)
        ELSE IF key.t = "RSAPrivateKey"
             THEN Return(jwt_base64url_encode(rsa_sign(key, input, 2, h, r)), <<"sign">>)
             ELSE Raise("TypeError", "PS algorithms require an RSA private key", <<>>)

\* JWT.encode(payload)
JWT_encode(c, payload, r) ==
    LET header_encoded == jwt_base64url_encode(JsonEncoder_dumps(HeaderOf(c.alg)))
        payload_encoder == jwt_base64url_encode(JsonEncoder_dumps(payload))
        signature == JWT_sign(c, header_encoded \o Dot \o payload_encoder, r)
    IN  IF signature.ok
        THEN Return(header_encoded \o Dot \o payload_encoder \o Dot \o signature.value,
                    signature.ops)
        ELSE signature

\* a decode without the algorithm check: the fault C2 is checked against
JWT_alg_mismatch_unchecked(c, header) == FALSE

\* header.get("alg") != self.alg
JWT_alg_mismatch(c, header) ==
    ~("alg" \in DOMAIN header /\ header.alg = <<"str", c.alg>>)

\* the key JWT.decode verifies an RS/ES/PS token with: public_key or secret,
\* PEM text loaded as a public key
JWT_verify_key(c, public_key) ==
    LET key == IF public_key # None /\ public_key # Str(<<>>)
               THEN public_key ELSE c.secret
    IN  IF key.t = "str"
        THEN load_pem_public_key(key.v)
        ELSE [ok |-> TRUE, value |-> key]

\* the exception pub_key.verify raises: the library's InvalidSignature of
\* a public key of the algorithm's family, TypeError of a public key of
\* another family (other arguments), AttributeError of a private key
verify_exception(pub_key, type) ==
    IF pub_key.t = type THEN "InvalidSignature"
    ELSE IF pub_key.t \in PrivateTypes THEN "AttributeError"
    ELSE "TypeError"

\* the exception of the library leaving decode as it is
JWT_signature_error_reraised(msg, exc) == Raise(exc, msg, <<"verify">>)

\* except Exception: raise ValueError("Invalid ... signature")
JWT_signature_error(msg, exc) == Raise("ValueError", msg, <<"verify">>)

\* a decode that returns the payload without checking the signature: the
\* fault C3 is checked against
JWT_verify_skipped(c, payload, signing_input, signature, public_key) ==
    Return(payload, <<>>)

\* the signature check of JWT.decode for the codec's algorithm: the result
\* of decode once the algorithm matched
JWT_verify(c, payload, signing_input, signature, public_key) ==
    LET h == AlgHash(c.alg)
        fam == AlgPrefix(c.alg)
        loaded == JWT_verify_key(c, public_key)
        pub_key == loaded.value
        n == CurveBytes(pub_key)
    IN  IF fam = "HS"
        THEN IF c.secret.t \notin {"str", "bytes"}
             THEN Raise("TypeError", "Invalid secret type for HMAC algorithm", <<>>)
             ELSE IF ~compare_digest(signature, hmac_digest(c.secret.v, signing_input, h))
             THEN Raise("ValueError", "Invalid HMAC signature",
                        <<"hmac.new", "compare_digest">>)
             ELSE Return(payload, <<"hmac.new", "compare_digest">>)
        ELSE IF fam = ""
        THEN Raise("ValueError", "Unsupported algorithm", <<>>)
        ELSE IF ~loaded.ok
        THEN Raise("ValueError", "Could not deserialize key data",
                   <<"load_pem_public_key">>)
        ELSE IF fam = "RS"
        THEN IF pub_key.t = "RSAPublicKey"
                /\ rsa_verify(pub_key, signature, signing_input, 1, h)
             THEN Return(payload, <<"verify">>)
             ELSE JWT_signature_error("Invalid RSA signature",
                                      verify_exception(pub_key, "RSAPublicKey"))
        ELSE IF fam = "ES"
        THEN IF c.alg \notin {"ES256", "ES384", "ES512"}
             THEN Raise("KeyError", c.alg, <<>>)
             ELSE IF pub_key.t \notin {"ECPublicKey", "ECPrivateKey"}
             THEN Raise("AttributeError", "curve", <<>>)
             ELSE IF pub_key.t = "ECPublicKey"
                     /\ ecdsa_verify(pub_key,
                                     StripZeros(Slice(signature, 0, n)),
                                     StripZeros(Slice(signature, n, Len(signature))),
                                     signing_input, h)
             THEN Return(payload, <<"verify">>)
             ELSE JWT_signature_error("Invalid ECDSA signature",
                                      verify_exception(pub_key, "ECPublicKey"))
        ELSE IF pub_key.t = "RSAPublicKey"
                /\ rsa_verify(pub_key, signature, signing_input, 2, h)
             THEN Return(payload, <<"verify">>)
             ELSE JWT_signature_error("Invalid RSA-PSS signature",
                                      verify_exception(pub_key, "RSAPublicKey"))

\* JWT.decode(token, public_key)
JWT_decode(c, token, public_key) ==
    LET parts == SplitDots(token)
        header_bytes == jwt_base64url_decode(parts[1])
        payload_bytes == jwt_base64url_decode(parts[2])
        header == JsonEncoder_loads(header_bytes.value)
        payload == JsonEncoder_loads(payload_bytes.value)
        signing_input == parts[1] \o Dot \o parts[2]
        signature == jwt_base64url_decode(parts[3])
    IN  IF Len(parts) # 3
        THEN Raise("ValueError", "Invalid token format", <<>>)
        ELSE IF ~header_bytes.ok \/ ~header.ok \/ ~payload_bytes.ok \/ ~payload.ok
        THEN Raise("ValueError", "Failed to decode token", <<>>)
        ELSE IF ~signature.ok
        THEN Raise("Base64Error", "Failed to decode base64url", <<>>)
        ELSE IF JWT_alg_mismatch(c, header.value)
        THEN Raise("ValueError", "Algorithm mismatch", <<>>)
        ELSE JWT_verify(c, payload.value, signing_input, signature.value, public_key)

(***************************************************************************)
(* jam.jwt.__algorithms__: the ECDSA strategy.                             *)
(***************************************************************************)
\* BaseAlgorithm._load_public_key_auto(key): [ok, value]
load_public_key_auto(key) ==
    IF key.t \in PrivateTypes THEN [ok |-> TRUE, value |-> public_key_of(key)]
    ELSE IF key.t # "str" \/ key.v = <<>> THEN [ok |-> TRUE, value |-> key]
    ELSE IF load_pem_public_key(key.v).ok THEN load_pem_public_key(key.v)
    ELSE IF load_pem_private_key(key.v).ok
    THEN [ok |-> TRUE, value |-> public_key_of(load_pem_private_key(key.v).value)]
    ELSE [ok |-> FALSE, value |-> None]

\* ESAlgorithm(alg, ...).verify(sig, data, key): every exception leaves as
\* ValueError "Invalid ECDSA signature"
ESAlgorithm_verify(alg, sig, data, key) ==
    LET loaded == load_public_key_auto(key)
        pub_key == loaded.value
        n == CurveBytes(pub_key)
    IN  IF ~loaded.ok \/ alg \notin {"ES256", "ES384", "ES512"}
           \/ pub_key.t # "ECPublicKey"
        THEN Raise("ValueError", "Invalid ECDSA signature", <<>>)
        ELSE IF Len(sig) # 2 * n
        THEN Raise("ValueError", "Invalid ECDSA signature", <<>>)
        ELSE IF ecdsa_verify(pub_key, StripZeros(Slice(sig, 0, n)),
                             StripZeros(Slice(sig, n, Len(sig))), data, AlgHash(alg))
        THEN Return(None, <<"verify">>)
        ELSE Raise("ValueError", "Invalid ECDSA signature", <<"verify">>)

(***************************************************************************)
(* jam.jwt.create_instance and the Jam instance built from a               *)
(* configuration (jam.__base__.BaseJam, jam.instance.Jam).                 *)
(***************************************************************************)
\* create_instance(alg, secret): params is the "jwt" section of the
\* configuration, secret None when it has none
jwt_create_instance(params) ==
    IF params.secret = None
    THEN Raise("ValueError", "Either 'secret' or 'secret_key' must be provided", <<>>)
    ELSE Return(JWT_init(params.alg, params.secret), <<>>)

\* BaseJam.__build_instance(config): the instance left after construction;
\* a module that fails to load is logged and its attribute stays None
BaseJam_build_instance(config) ==
    IF config.jwt = None
    THEN [jwt |-> None, logged |-> <<>>]
    ELSE LET module_instance == jwt_create_instance(config.jwt)
         IN  IF module_instance.ok
             THEN [jwt |-> module_instance.value, logged |-> <<>>]
             ELSE [jwt |-> None, logged |-> <<"Failed to load module jwt">>]

\* Jam(config): construction returns the instance, it raises nothing
Jam_init(config) == Return(BaseJam_build_instance(config), <<>>)

\* Jam.jwt_create_token(payload): self.jwt.encode(payload)
Jam_jwt_create_token(inst, payload, r) ==
    IF inst.jwt = None
    THEN Raise("AttributeError", "'NoneType' object has no attribute 'encode'", <<>>)
    ELSE JWT_encode(inst.jwt, payload, r)

\* Jam.jwt_verify_token(token): self.jwt.decode(token)
Jam_jwt_verify_token(inst, token) ==
    IF inst.jwt = None
    THEN Raise("AttributeError", "'NoneType' object has no attribute 'decode'", <<>>)
    ELSE JWT_decode(inst.jwt, token, None)

\* Jam.jwt_verify_token(token, check_exp, check_list): the two flags are
\* logged, then self.jwt.decode(token) is returned
Jam_jwt_verify_token_flags(inst, token, check_exp, check_list) ==
    Jam_jwt_verify_token(inst, token)

(***************************************************************************)
(* jam.jwt.lists.redis.RedisList: a list is its type, the lifetime of an   *)
(* entry and the keys of its Redis database, each with the time it expires *)
(* at (NoTime: never).                                                     *)
(***************************************************************************)
\* None where a number of seconds or a time is expected
NoTime == -1

RedisList_init(type, in_list_life_time) ==
    [type |-> type, exp |-> in_list_life_time, keys |-> {}]

\* BaseJWT._list_built(list_config)
BaseJWT_list_built(list_config) ==
    IF list_config.backend = "redis"
    THEN Return(RedisList_init(list_config.type, list_config.in_list_life_time), <<>>)
    ELSE Raise("ValueError", "Unknown list type", <<>>)

\* the keys of a Redis database that have not expired at the time now
RedisLive(keys, now) == {k \in keys : k.expire_at = NoTime \/ now < k.expire_at}

\* RedisList.add(token): SET name value EX exp
RedisList_add(l, token, now) ==
    [l EXCEPT !.keys = {k \in RedisLive(@, now) : k.name # token}
                        \cup {[name |-> token,
                               expire_at |-> IF l.exp = NoTime THEN NoTime ELSE now + l.exp]}]

\* RedisList.check(token): bool(GET name)
RedisList_check(l, token, now) == \E k \in RedisLive(l.keys, now) : k.name = token

\* RedisList.delete(token): DEL name
RedisList_delete(l, token, now) ==
    [l EXCEPT !.keys = {k \in RedisLive(@, now) : k.name # token}]

(***************************************************************************)
(* The Redis commands the session module calls.  A database is the set of  *)
(* the fields of its hashes: [name, key, value, expire_at], name the hash, *)
(* key the field, expire_at the time the field expires at (NoTime: never). *)
(* Text here is a sequence of one-character strings.                       *)
(***************************************************************************)
\* the fields that have not expired at the time now
HLive(db, now) == {f \in db : f.expire_at = NoTime \/ now < f.expire_at}

\* HSET name key value: the field is written and any expiry it had is gone
redis_hset(db, name, key, value, now) ==
    {f \in HLive(db, now) : ~(f.name = name /\ f.key = key)}
        \cup {[name |-> name, key |-> key, value |-> value, expire_at |-> NoTime]}

\* HEXPIRE name seconds FIELDS 1 key
redis_hexpire(db, name, seconds, key, now) ==
    {IF f.name = name /\ f.key = key THEN [f EXCEPT !.expire_at = now + seconds] ELSE f :
        f \in HLive(db, now)}

\* HGET name key: the value, or None
redis_hget(db, name, key, now) ==
    IF \E f \in HLive(db, now) : f.name = name /\ f.key = key
    THEN (CHOOSE f \in HLive(db, now) : f.name = name /\ f.key = key).value
    ELSE None

\* HDEL name key
redis_hdel(db, name, key, now) ==
    {f \in HLive(db, now) : ~(f.name = name /\ f.key = key)}

\* DEL name
redis_delete(db, name, now) == {f \in HLive(db, now) : f.name # name}

(***************************************************************************)
(* jam.sessions.__base__.BaseSessionModule.  A module is [backend, ttl,    *)
(* crypt, ids]: crypt whether _code_session_key is set, ids the number of  *)
(* ids its factory has handed out.  A Fernet token is the text it encrypts *)
(* behind the word "fernet": only the module's key opens it, and the model *)
(* has one key.                                                            *)
(***************************************************************************)
Colon == ":"
SkMark == "J$_"
FernetWord == "fernet"
IdDigits == <<"1", "2", "3", "4", "5", "6", "7", "8", "9">>

\* self.id: the id factory's next value, a text without a colon
BaseSessionModule_id(inst) == <<"i", IdDigits[inst.ids + 1]>>

\* __encode_session_id__(data)
encode_session_id(inst, data) ==
    IF ~inst.crypt
    THEN Raise("AttributeError", "Session key encoding is not enabled.", <<>>)
    ELSE Return(<<SkMark, FernetWord>> \o data, <<>>)

\* __decode_session_id__(data)
decode_session_id(inst, data) ==
    IF ~inst.crypt
    THEN Raise("AttributeError", "Session key encoding is not enabled.", <<>>)
    ELSE IF ~(Len(data) >= 1 /\ data[1] = SkMark)
    THEN Raise("ValueError", "Session key is not encoded or is invalid.", <<>>)
    ELSE IF ~(Len(data) >= 2 /\ data[2] = FernetWord)
    THEN Raise("InvalidToken", "", <<>>)
    ELSE Return(SubSeq(data, 3, Len(data)), <<>>)

\* __encode_session_id_if_needed__(data)
encode_session_id_if_needed(inst, data) ==
    IF inst.crypt THEN encode_session_id(inst, data) ELSE Return(data, <<>>)

\* __decode_session_id_if_needed__(data): a ValueError is logged and the
\* text is returned as it came
decode_session_id_if_needed(inst, data) ==
    LET d == decode_session_id(inst, data)
    IN  IF ~inst.crypt THEN Return(data, <<>>)
        ELSE IF ~d.ok /\ d.err[1] = "ValueError" THEN Return(data, <<>>)
        ELSE d

\* the stored text of a session's data: the serializer's text, encrypted
\* when the module encrypts (the AttributeError of __encode_session_data__
\* is caught by the caller, which stores the text as it is)
SessionDumps(inst, data) ==
    [crypt |-> inst.crypt, text |-> JsonEncoder_dumps(data)]

\* the data of a stored text: __decode_session_data__, else serializer.loads
SessionLoads(inst, stored) ==
    IF inst.crypt /\ ~stored.crypt
    THEN Raise("ValueError", "Session key is not encoded or is invalid.", <<>>)
    ELSE IF ~inst.crypt /\ stored.crypt
    THEN Raise("JSONDecodeError", "Expecting value", <<>>)
    ELSE LET d == JsonEncoder_loads(stored.text)
         IN  IF d.ok THEN Return(d.value, <<>>)
             ELSE Raise("JSONDecodeError", "Expecting value", <<>>)

\* a value that is true in a Python condition: not None, not empty
Truthy(x) == x # None /\ x # EmptyDict /\ x # EmptyText

\* text.split(":", 1)[0]
RECURSIVE SplitColonHead(_)
SplitColonHead(text) ==
    IF text = <<>> \/ Head(text) = Colon THEN <<>>
    ELSE <<Head(text)>> \o SplitColonHead(Tail(text))

(***************************************************************************)
(* jam.sessions.redis.RedisSessions.  Each method is given the module, the *)
(* database and the time, and yields [inst, db, out]: the module and the   *)
(* database it leaves and what it returned or raised.                      *)
(***************************************************************************)
SessionPath == <<"s", "e", "s", "s", "i", "o", "n", "s">>

\* f"{self.session_path}:{session_key}"
SessionHash(session_key) == SessionPath \o <<Colon>> \o session_key

\* raise JamSessionNotFound(details={"session_id": session_id})
SessionNotFound == Raise("JamSessionNotFound", "Session not found.", <<>>)

\* if self.ttl
HasTTL(inst) == inst.ttl # NoTime /\ inst.ttl # 0

\* create up to the HSET: the id, the hash and the database after it
RedisSessions_create_hset(inst, db, now, session_key, data) ==
    LET session_id ==
            encode_session_id_if_needed(inst, session_key \o <<Colon>>
                                                \o BaseSessionModule_id(inst)).value
    IN  [inst |-> [inst EXCEPT !.ids = @ + 1],
         db |-> redis_hset(db, SessionHash(session_key), session_id,
                           SessionDumps(inst, data), now),
         session_id |-> session_id]

\* the HEXPIRE that follows the HSET of create and of update
RedisSessions_hexpire(inst, db, now, session_key, session_id) ==
    IF HasTTL(inst)
    THEN redis_hexpire(db, SessionHash(session_key), inst.ttl, session_id, now)
    ELSE db

\* RedisSessions.create(session_key, data)
RedisSessions_create(inst, db, now, session_key, data) ==
    LET set == RedisSessions_create_hset(inst, db, now, session_key, data)
    IN  [inst |-> set.inst,
         db |-> RedisSessions_hexpire(inst, set.db, now, session_key, set.session_id),
         out |-> Return(set.session_id, <<>>)]

\* RedisSessions.get(session_id)
RedisSessions_get(inst, db, now, session_id) ==
    LET decoded == decode_session_id_if_needed(inst, session_id)
        session == redis_hget(db, SessionHash(SplitColonHead(decoded.value)),
                              session_id, now)
    IN  [inst |-> inst, db |-> db,
         out |-> IF ~decoded.ok THEN decoded
                 ELSE IF session = None THEN Return(None, <<>>)
                 ELSE SessionLoads(inst, session)]

\* RedisSessions.delete(session_id)
RedisSessions_delete(inst, db, now, session_id) ==
    LET decoded == decode_session_id_if_needed(inst, session_id)
    IN  IF ~decoded.ok THEN [inst |-> inst, db |-> db, out |-> decoded]
        ELSE [inst |-> inst,
              db |-> redis_hdel(db, SessionHash(SplitColonHead(decoded.value)),
                                session_id, now),
              out |-> Return(None, <<>>)]

\* RedisSessions.clear(session_key)
RedisSessions_clear(inst, db, now, session_key) ==
    [inst |-> inst, db |-> redis_delete(db, SessionHash(session_key), now),
     out |-> Return(None, <<>>)]

\* update after its get: whether the session counts as found
RedisSessions_update_found(got) == got.ok /\ Truthy(got.value)

\* an update that leaves the field without an expiry
RedisSessions_update_hexpire_skipped(inst, db, now, session_key, session_id) == db

\* the HEXPIRE of update
RedisSessions_update_hexpire(inst, db, now, session_key, session_id) ==
    RedisSessions_hexpire(inst, db, now, session_key, session_id)

\* the HSET of update
RedisSessions_update_hset(inst, db, now, session_key, session_id, data) ==
    redis_hset(db, SessionHash(session_key), session_id, SessionDumps(inst, data), now)

\* RedisSessions.update(session_id, data)
RedisSessions_update(inst, db, now, session_id, data) ==
    LET decoded == decode_session_id_if_needed(inst, session_id)
        session_key == SplitColonHead(decoded.value)
        got == RedisSessions_get(inst, db, now, session_id).out
        set == RedisSessions_update_hset(inst, db, now, session_key, session_id, data)
    IN  IF ~decoded.ok THEN [inst |-> inst, db |-> db, out |-> decoded]
        ELSE IF ~got.ok THEN [inst |-> inst, db |-> db, out |-> got]
        ELSE IF ~RedisSessions_update_found(got)
        THEN [inst |-> inst, db |-> db,
              out |-> SessionNotFound]
        ELSE [inst |-> inst,
              db |-> RedisSessions_update_hexpire(inst, set, now, session_key, session_id),
              out |-> Return(None, <<>>)]

\* the delete that ends a rework
RedisSessions_rework_delete(inst, db, now, session_id) ==
    RedisSessions_delete(inst, db, now, session_id)

\* RedisSessions.rework(session_id)
RedisSessions_rework(inst, db, now, session_id) ==
    LET decoded == decode_session_id_if_needed(inst, session_id)
        got == RedisSessions_get(inst, db, now, session_id).out
        made == RedisSessions_create(inst, db, now, SplitColonHead(decoded.value),
                                     got.value)
        gone == RedisSessions_rework_delete(made.inst, made.db, now, session_id)
    IN  IF ~decoded.ok THEN [inst |-> inst, db |-> db, out |-> decoded]
        ELSE IF ~got.ok THEN [inst |-> inst, db |-> db, out |-> got]
        ELSE IF ~Truthy(got.value)
        THEN [inst |-> inst, db |-> db,
              out |-> SessionNotFound]
        ELSE [inst |-> gone.inst, db |-> gone.db, out |-> made.out]

(***************************************************************************)
(* jam.aio.sessions.json.JSONSessions.  The database is the set of the     *)
(* documents of the TinyDB table: [key, session_id, data].  The methods    *)
(* take the time only to have the shape of the Redis ones: a document      *)
(* never expires.                                                          *)
(***************************************************************************)
\* JSONSessions.create(session_key, data)
JSONSessions_create(inst, db, now, session_key, data) ==
    LET session_id == encode_session_id_if_needed(inst, BaseSessionModule_id(inst)).value
    IN  [inst |-> [inst EXCEPT !.ids = @ + 1],
         db |-> db \cup {[key |-> session_key, session_id |-> session_id,
                          data |-> SessionDumps(inst, data)]},
         out |-> Return(session_id, <<>>)]

\* JSONSessions.get(session_id)
JSONSessions_get(inst, db, now, session_id) ==
    LET result == {doc \in db : doc.session_id = session_id}
    IN  [inst |-> inst, db |-> db,
         out |-> IF result # {}
                 THEN SessionLoads(inst, (CHOOSE doc \in result : TRUE).data)
                 ELSE Return(None, <<>>)]

\* JSONSessions.delete(session_id)
JSONSessions_delete(inst, db, now, session_id) ==
    [inst |-> inst, db |-> {doc \in db : doc.session_id # session_id},
     out |-> Return(None, <<>>)]

\* JSONSessions.update(session_id, data)
JSONSessions_update(inst, db, now, session_id, data) ==
    [inst |-> inst,
     db |-> {IF doc.session_id = session_id
             THEN [doc EXCEPT !.data = SessionDumps(inst, data)] ELSE doc : doc \in db},
     out |-> Return(None, <<>>)]

\* a clear that removes every document
JSONSessions_clear_all(inst, db, now, session_key) ==
    [inst |-> inst, db |-> {}, out |-> Return(None, <<>>)]

\* JSONSessions.clear(session_key)
JSONSessions_clear(inst, db, now, session_key) ==
    [inst |-> inst, db |-> {doc \in db : doc.key # session_key},
     out |-> Return(None, <<>>)]

\* JSONSessions.rework(session_id)
JSONSessions_rework(inst, db, now, session_id) ==
    LET result == {doc \in db : doc.session_id = session_id}
        new_session_id ==
            encode_session_id_if_needed(inst, BaseSessionModule_id(inst)).value
    IN  IF result = {}
        THEN [inst |-> inst, db |-> db,
              out |-> Raise("SessionNotFoundError", "Session with ID", <<>>)]
        ELSE [inst |-> [inst EXCEPT !.ids = @ + 1],
              db |-> {IF doc.session_id = session_id
                      THEN [doc EXCEPT !.session_id = new_session_id] ELSE doc :
                          doc \in db},
              out |-> Return(new_session_id, <<>>)]

(***************************************************************************)
(* jam.sessions.modules.redis.RedisSessions, the earlier Redis store, with *)
(* session encryption off.  It keeps the expiry in the stored data under   *)
(* "_session_exp": a stored value is [data, session_exp], session_exp the  *)
(* time of expiry or NoTime when the key is absent.                        *)
(***************************************************************************)
\* the text holds a colon
HasColon(text) == \E i \in 1..Len(text) : text[i] = Colon

\* text.split(":", 1)[1], for a text that holds a colon
SplitColonRest(text) ==
    SubSeq(text, Len(SplitColonHead(text)) + 2, Len(text))

\* the mapping json.loads gives back for a stored value
LegacyLoaded(stored) ==
    IF stored.session_exp = NoTime THEN stored.data ELSE stored

\* the value stored for the mapping data: data["_session_exp"] is set when
\* a TTL is configured, and stays as it came otherwise
LegacyStored(inst, data, now) ==
    LET given == IF "session_exp" \in DOMAIN data THEN data
                 ELSE [data |-> data, session_exp |-> NoTime]
    IN  IF HasTTL(inst) THEN [given EXCEPT !.session_exp = now + inst.ttl] ELSE given

\* the unpacking of session_id.split(":", 1) fails
LegacyUnpackError == Raise("ValueError", "not enough values to unpack", <<>>)

\* RedisSessions.create(session_key, data)
LegacySessions_create(inst, db, now, session_key, data) ==
    [inst |-> [inst EXCEPT !.ids = @ + 1],
     db |-> redis_hset(db, SessionHash(session_key), BaseSessionModule_id(inst),
                       LegacyStored(inst, data, now), now),
     out |-> Return(session_key \o <<Colon>> \o BaseSessionModule_id(inst), <<>>)]

\* RedisSessions.delete(session_id)
LegacySessions_delete(inst, db, now, session_id) ==
    IF ~HasColon(session_id) THEN [inst |-> inst, db |-> db, out |-> LegacyUnpackError]
    ELSE [inst |-> inst,
          db |-> redis_hdel(db, SessionHash(SplitColonHead(session_id)),
                            SplitColonRest(session_id), now),
          out |-> Return(None, <<>>)]

\* get: the stored data has "_session_exp" and the time is past it
LegacySessions_get_expired(stored, now) ==
    stored.session_exp # NoTime /\ now > stored.session_exp

\* RedisSessions.get(session_id, delete_if_expire=True)
LegacySessions_get(inst, db, now, session_id) ==
    LET data == redis_hget(db, SessionHash(SplitColonHead(session_id)),
                           SplitColonRest(session_id), now)
    IN  IF ~HasColon(session_id) THEN [inst |-> inst, db |-> db, out |-> LegacyUnpackError]
        ELSE IF data = None THEN [inst |-> inst, db |-> db, out |-> Return(None, <<>>)]
        ELSE IF LegacySessions_get_expired(data, now)
        THEN [inst |-> inst, db |-> LegacySessions_delete(inst, db, now, session_id).db,
              out |-> Return(None, <<>>)]
        ELSE [inst |-> inst, db |-> db, out |-> Return(LegacyLoaded(data), <<>>)]

\* RedisSessions.clear(session_key)
LegacySessions_clear(inst, db, now, session_key) ==
    [inst |-> inst, db |-> redis_delete(db, SessionHash(session_key), now),
     out |-> Return(None, <<>>)]

\* RedisSessions.update(session_id, data)
LegacySessions_update(inst, db, now, session_id, data) ==
    IF ~HasColon(session_id) THEN [inst |-> inst, db |-> db, out |-> LegacyUnpackError]
    ELSE [inst |-> inst,
          db |-> redis_hset(db, SessionHash(SplitColonHead(session_id)),
                            SplitColonRest(session_id),
                            LegacyStored(inst, data, now), now),
          out |-> Return(None, <<>>)]

\* RedisSessions.rework(session_id)
LegacySessions_rework(inst, db, now, session_id) ==
    LET got == LegacySessions_get(inst, db, now, session_id)
        made == LegacySessions_create(inst, got.db, now, SplitColonHead(session_id),
                                      got.out.value)
        gone == LegacySessions_delete(made.inst, made.db, now, session_id)
    IN  IF ~got.out.ok THEN got
        ELSE IF ~Truthy(got.out.value)
        THEN [inst |-> inst, db |-> got.db,
              out |-> Raise("SessionNotFoundError", "Session with ID", <<>>)]
        ELSE [inst |-> gone.inst, db |-> gone.db, out |-> made.out]

(***************************************************************************)
(* A session store of any kind.                                         *)
(***************************************************************************)
Sessions_create(inst, db, now, session_key, data) ==
    IF inst.backend = "redis" THEN RedisSessions_create(inst, db, now, session_key, data)
    ELSE IF inst.backend = "json" THEN JSONSessions_create(inst, db, now, session_key, data)
    ELSE LegacySessions_create(inst, db, now, session_key, data)

Sessions_get(inst, db, now, session_id) ==
    IF inst.backend = "redis" THEN RedisSessions_get(inst, db, now, session_id)
    ELSE IF inst.backend = "json" THEN JSONSessions_get(inst, db, now, session_id)
    ELSE LegacySessions_get(inst, db, now, session_id)

Sessions_delete(inst, db, now, session_id) ==
    IF inst.backend = "redis" THEN RedisSessions_delete(inst, db, now, session_id)
    ELSE IF inst.backend = "json" THEN JSONSessions_delete(inst, db, now, session_id)
    ELSE LegacySessions_delete(inst, db, now, session_id)

Sessions_update(inst, db, now, session_id, data) ==
    IF inst.backend = "redis" THEN RedisSessions_update(inst, db, now, session_id, data)
    ELSE IF inst.backend = "json" THEN JSONSessions_update(inst, db, now, session_id, data)
    ELSE LegacySessions_update(inst, db, now, session_id, data)

Sessions_clear(inst, db, now, session_key) ==
    IF inst.backend = "redis" THEN RedisSessions_clear(inst, db, now, session_key)
    ELSE IF inst.backend = "json" THEN JSONSessions_clear(inst, db, now, session_key)
    ELSE LegacySessions_clear(inst, db, now, session_key)

Sessions_rework(inst, db, now, session_id) ==
    IF inst.backend = "redis" THEN RedisSessions_rework(inst, db, now, session_id)
    ELSE IF inst.backend = "json" THEN JSONSessions_rework(inst, db, now, session_id)
    ELSE LegacySessions_rework(inst, db, now, session_id)

\* the database as time passes: Redis drops the fields that expired
Sessions_expire(inst, db, now) ==
    IF inst.backend = "json" THEN db ELSE HLive(db, now)

(***************************************************************************)
(* jam.paseto.utils and the primitives the PASETO codecs call.             *)
(***************************************************************************)
RECURSIVE Shr8(_, _)
\* n >> (8 * k)
Shr8(n, k) == IF k = 0 THEN n ELSE Shr8(n \div 256, k - 1)

\* le64 with the bytes in the opposite order
le64_big_endian(n) ==
    [i \in 1..8 |-> IF i = 1 THEN (Shr8(n, 7) % 128) % 256 ELSE Shr8(n, 8 - i) % 256]

\* le64(n) of __pae__: 8 bytes, little-endian, the top bit cleared
le64(n) == [i \in 1..8 |-> IF i = 8 THEN (Shr8(n, 7) % 128) % 256 ELSE Shr8(n, i - 1) % 256]

RECURSIVE PaeFrom(_, _)
PaeFrom(pieces, k) ==
    IF k > Len(pieces) THEN <<>>
    ELSE le64(Len(pieces[k])) \o pieces[k] \o PaeFrom(pieces, k + 1)

RECURSIVE Concat(_, _)
Concat(pieces, k) ==
    IF k > Len(pieces) THEN <<>> ELSE pieces[k] \o Concat(pieces, k + 1)

\* __pae__ without the length of each piece
pae_unframed(pieces) == le64(Len(pieces)) \o Concat(pieces, 1)

\* __pae__(pieces)
pae(pieces) == le64(Len(pieces)) \o PaeFrom(pieces, 1)

\* __gen_hash__(key, msg, hash_size): HMAC-SHA384, cut to hash_size bytes
gen_hash(key, msg, hash_size) ==
    LET hash_ == hmac_digest(key, msg, "sha384")
    IN  IF hash_size > 0 THEN Slice(hash_, 0, hash_size) ELSE hash_

InfoEncryption == 1
InfoAuth == 2

\* HKDF(algorithm=SHA384, length=32, salt=salt, info=info).derive(secret)
hkdf_derive(secret, salt, info) == IdealBytes(32, Fp(secret), Fp(salt), 32 + info)

\* the key stream of AES-256-CTR under a key and a 16-byte counter block
ctr_stream(key, nonce, n) == IdealBytes(n, Fp(key), Fp(nonce), 48)

\* BasePASETO._encrypt(key, nonce, data) and ._decrypt(key, nonce, data)
BasePASETO_encrypt(key, nonce, data) ==
    LET ks == ctr_stream(key, nonce, Len(data))
    IN  [i \in 1..Len(data) |-> (data[i] + ks[i]) % 256]

BasePASETO_decrypt(key, nonce, data) ==
    LET ks == ctr_stream(key, nonce, Len(data))
    IN  [i \in 1..Len(data) |-> (data[i] + 256 - ks[i]) % 256]

\* the Poly1305 tag of XChaCha20-Poly1305: 16 bytes
xchacha_tag(key, nonce, ct, aad) ==
    IdealBytes(16, Fp(key), Fp(nonce \o le64(Len(aad)) \o aad \o ct), 64)

\* jam.utils.xchacha20poly1305.xchacha20poly1305_encrypt(key, nonce,
\* plaintext, aad): the ciphertext followed by its 16-byte tag
xchacha20poly1305_encrypt(key, nonce, plaintext, aad) ==
    LET ks == IdealBytes(Len(plaintext), Fp(key), Fp(nonce), 65)
        ct == [i \in 1..Len(plaintext) |-> (plaintext[i] + ks[i]) % 256]
    IN  ct \o xchacha_tag(key, nonce, ct, aad)

\* xchacha20poly1305_decrypt(key, nonce, ciphertext, aad): [ok, value]; it
\* raises for a key that is not 32 bytes, a ciphertext shorter than its tag
\* and a tag that does not match
xchacha20poly1305_decrypt(key, nonce, ciphertext, aad) ==
    LET ct == DropLastN(ciphertext, 16)
        tag == LastN(ciphertext, 16)
        ks == IdealBytes(Len(ct), Fp(key.v), Fp(nonce), 65)
    IN  IF key = None \/ key.t # "bytes" THEN [ok |-> FALSE, value |-> <<>>]
        ELSE IF Len(key.v) # 32 \/ Len(ciphertext) < 16
        THEN [ok |-> FALSE, value |-> <<>>]
        ELSE IF tag # xchacha_tag(key.v, nonce, ct, aad)
        THEN [ok |-> FALSE, value |-> <<>>]
        ELSE [ok |-> TRUE, value |-> [i \in 1..Len(ct) |-> (ct[i] + 256 - ks[i]) % 256]]

\* ed25519.Ed25519PublicKey.from_public_bytes(key): [ok, value]
from_public_bytes(key) ==
    IF Len(key) = 32
    THEN [ok |-> TRUE, value |-> KeyObj("Ed25519PublicKey", key[1], 256)]
    ELSE [ok |-> FALSE, value |-> None]

(***************************************************************************)
(* The PASETO codecs.  A codec is [version, purpose, secret, public_key],  *)
(* the fields key() sets on the instance it returns.                       *)
(***************************************************************************)
PasCodec(version, purpose, secret, public_key) ==
    [version |-> version, purpose |-> purpose, secret |-> secret,
     public_key |-> public_key]

V1 == <<118, 49>>
V2 == <<118, 50>>
LocalText == <<108, 111, 99, 97, 108>>
PublicText == <<112, 117, 98, 108, 105, 99>>

VersionText(v) == IF v = "v1" THEN V1 ELSE V2
PurposeText(p) == IF p = "local" THEN LocalText ELSE PublicText

\* f"{self._VERSION}.{self.purpose}."
PasHeader(version, purpose) == VersionText(version) \o Dot \o PurposeText(purpose) \o Dot

\* PASETOv1.key(purpose, key)
PASETOv1_key(purpose, key) ==
    IF purpose = "local"
    THEN LET raw == IF key.t = "str" THEN base64url_decode(key.v)
                    ELSE [ok |-> TRUE, value |-> key.v]
         IN  IF ~raw.ok
             THEN Raise("JamPASETOInvalidSymmetricKey", "Failed to decode base64url", <<>>)
             ELSE IF key.t \notin {"str", "bytes"}
             THEN Raise("JamPASETOInvalidRSAKey",
                        "v1.local requires a 32-byte secret key.", <<>>)
             ELSE Return(PasCodec("v1", "local", Bytes(raw.value), None), <<>>)
    ELSE IF purpose = "public"
    THEN IF key.t = "RSAPrivateKey"
         THEN Raise("TypeError", "unsupported operand type(s) for -", <<>>)
         ELSE IF key.t = "RSAPublicKey"
         THEN Return(PasCodec("v1", "public", None, key), <<>>)
         ELSE IF key.t \notin {"str", "bytes"}
         THEN Raise("JamPASETOInvalidRSAKey", "Invalid RSA key for v1.public", <<>>)
         ELSE LET priv == load_pem_private_key(key.v)
                  pub == load_pem_public_key(key.v)
              IN  IF priv.ok /\ priv.value.t = "RSAPrivateKey"
                  THEN Return(PasCodec("v1", "public", priv.value,
                                       public_key_of(priv.value)), <<>>)
                  ELSE IF pub.ok /\ pub.value.t = "RSAPublicKey"
                  THEN Return(PasCodec("v1", "public", None, pub.value), <<>>)
                  ELSE Raise("JamPASETOInvalidRSAKey", "Invalid RSA key for v1.public",
                             <<>>)
    ELSE Raise("ValueError", "Purpose must be 'local' or 'public'", <<>>)

\* PASETOv2.key(purpose, key)
PASETOv2_key(purpose, key) ==
    IF purpose = "local"
    THEN LET raw == IF key.t = "str" THEN urlsafe_b64decode(key.v, 2)
                    ELSE [ok |-> TRUE, value |-> key.v]
         IN  IF ~raw.ok
             THEN Raise("binascii.Error", "Incorrect padding", <<>>)
             ELSE IF key.t \notin {"str", "bytes"} \/ Len(raw.value) # 32
             THEN Raise("ValueError", "v2.local key must be 32 bytes", <<>>)
             ELSE Return(PasCodec("v2", "local", Bytes(raw.value), None), <<>>)
    ELSE IF purpose = "public"
    THEN IF key.t = "str" /\ StartsWith(key.v, PemBeginText)
         THEN LET priv == load_pem_private_key(key.v)
              IN  IF priv.ok
                  THEN Return(PasCodec("v2", "public", priv.value, None), <<>>)
                  ELSE Raise("ValueError", "Could not deserialize key data", <<>>)
         ELSE IF key.t = "bytes"
         THEN LET pub == from_public_bytes(key.v)
              IN  IF pub.ok
                  THEN Return(PasCodec("v2", "public", None, pub.value), <<>>)
                  ELSE Raise("ValueError", "An Ed25519 private key is 32 bytes long", <<>>)
         ELSE Raise("ValueError", "Invalid key for v2.public", <<>>)
    ELSE Raise("ValueError", "Purpose must be 'local' or 'public'", <<>>)

\* the 32-byte value of secrets.token_bytes(32) / the 24-byte value of
\* secrets.token_bytes(24) in draw r
token_bytes(n, r) == [i \in 1..n |-> (r + 3 * i) % 256]

\* PASETOv1._encode_local(header, payload, footer)
PASETOv1_encode_local(c, header, payload, footer, r) ==
    LET nonce == token_bytes(32, r)
        pl == gen_hash(nonce, payload, 32)
        salt == Slice(pl, 0, 16)
        ek == hkdf_derive(c.secret.v, salt, InfoEncryption)
        ak == hkdf_derive(c.secret.v, salt, InfoAuth)
        ciphertext == BasePASETO_encrypt(ek, Slice(pl, 16, 32), payload)
        pre_auth == pae(<<header, pl, ciphertext, footer>>)
        tag == hmac_digest(ak, pre_auth, "sha384")
        token == header \o base64url_encode(pl \o ciphertext \o tag)
        ops == <<"hmac.new", "HKDF.derive", "HKDF.derive", "_encrypt", "hmac.new">>
    IN  IF c.secret = None \/ c.secret.t # "bytes"
        THEN Raise("TypeError", "key_material must be bytes-like",
                   <<"hmac.new", "HKDF.derive">>)
        ELSE IF footer # <<>>
        THEN Return(token \o Dot \o base64url_encode(footer), ops)
        ELSE Return(token, ops)

\* PASETOv1._encode_public(header, payload, footer)
PASETOv1_encode_public(c, header, payload, footer, r) ==
    LET pre_auth == pae(<<header, payload, footer>>)
        signature == rsa_sign(c.secret, pre_auth, 2, "sha384", r)
        token == header \o base64url_encode(payload \o signature)
    IN  IF c.secret = None \/ c.secret.t # "RSAPrivateKey"
        THEN Raise("JamPASTOKeyVerificationError", "Key verification failed.", <<>>)
        ELSE IF footer # <<>>
        THEN Return(token \o Dot \o base64url_encode(footer), <<"sign">>)
        ELSE Return(token, <<"sign">>)

\* PASETOv1.encode(payload, footer)
PASETOv1_encode(c, payload, footer, r) ==
    LET header == PasHeader("v1", c.purpose)
        payload_bytes == JsonEncoder_dumps(payload)
        footer_bytes == IF Truthy(footer) THEN JsonEncoder_dumps(footer) ELSE <<>>
    IN  IF c.purpose = "local"
        THEN PASETOv1_encode_local(c, header, payload_bytes, footer_bytes, r)
        ELSE IF c.purpose = "public"
        THEN PASETOv1_encode_public(c, header, payload_bytes, footer_bytes, r)
        ELSE Raise("JamPASETOInvalidPurpose", "Invalid purpose.", <<>>)

\* the footer a decode returns: None when there are no footer bytes, else
\* the bytes parsed by the serializer, else their text (ASCII stands for
\* UTF-8 here), else the bytes
PasFooterValue(footer_decoded) ==
    IF footer_decoded = <<>> THEN None
    ELSE IF JsonEncoder_loads(footer_decoded).ok
    THEN JsonEncoder_loads(footer_decoded).value
    ELSE IF \A i \in 1..Len(footer_decoded) : footer_decoded[i] < 128
    THEN Str(footer_decoded)
    ELSE Bytes(footer_decoded)

\* PASETOv1._decode_local from the key derivation on, decrypting before the
\* tag is compared: the fault C10 is checked against
PASETOv1_open_local_decrypt_first(c, header, pl, ciphertext, tag, footer_decoded) ==
    LET salt == Slice(pl, 0, 16)
        ek == hkdf_derive(c.secret.v, salt, InfoEncryption)
        ak == hkdf_derive(c.secret.v, salt, InfoAuth)
        expected_tag == hmac_digest(ak, pae(<<header, pl, ciphertext, footer_decoded>>),
                                    "sha384")
        payload == JsonEncoder_loads(BasePASETO_decrypt(ek, Slice(pl, 16, 32), ciphertext))
        ops == <<"HKDF.derive", "HKDF.derive", "_decrypt", "hmac.new", "compare_digest">>
    IN  IF c.secret = None \/ c.secret.t # "bytes"
        THEN Raise("TypeError", "key_material must be bytes-like", <<"HKDF.derive">>)
        ELSE IF ~compare_digest(tag, expected_tag)
        THEN Raise("JamPASETOInvalidTokenFormat", "Invalid authentication tag", ops)
        ELSE IF ~payload.ok
        THEN Raise("JSONDecodeError", "Expecting value", ops)
        ELSE Return(<<payload.value, PasFooterValue(footer_decoded)>>, ops)

\* PASETOv1._decode_local from the key derivation on: derive the keys,
\* recompute and compare the tag, then decrypt and parse
PASETOv1_open_local(c, header, pl, ciphertext, tag, footer_decoded) ==
    LET salt == Slice(pl, 0, 16)
        ek == hkdf_derive(c.secret.v, salt, InfoEncryption)
        ak == hkdf_derive(c.secret.v, salt, InfoAuth)
        expected_tag == hmac_digest(ak, pae(<<header, pl, ciphertext, footer_decoded>>),
                                    "sha384")
        payload == JsonEncoder_loads(BasePASETO_decrypt(ek, Slice(pl, 16, 32), ciphertext))
        checked == <<"HKDF.derive", "HKDF.derive", "hmac.new", "compare_digest">>
    IN  IF c.secret = None \/ c.secret.t # "bytes"
        THEN Raise("TypeError", "key_material must be bytes-like", <<"HKDF.derive">>)
        ELSE IF ~compare_digest(tag, expected_tag)
        THEN Raise("JamPASETOInvalidTokenFormat", "Invalid authentication tag", checked)
        ELSE IF ~payload.ok
        THEN Raise("JSONDecodeError", "Expecting value", checked \o <<"_decrypt">>)
        ELSE Return(<<payload.value, PasFooterValue(footer_decoded)>>,
                    checked \o <<"_decrypt">>)

\* PASETOv1._decode_local(token, serializer)
PASETOv1_decode_local(c, token) ==
    LET parts == SplitDots(token)
        header == parts[1] \o Dot \o parts[2] \o Dot
        decoded == base64url_decode(parts[3])
        footer_part == IF Len(parts) > 3 THEN parts[4] ELSE <<>>
        footer_decoded == IF footer_part # <<>> THEN base64url_decode(footer_part)
                          ELSE [ok |-> TRUE, value |-> <<>>]
        pl == Slice(decoded.value, 0, 32)
        ciphertext_tag == Slice(decoded.value, 32, Len(decoded.value))
    IN  IF Len(parts) < 3
        THEN Raise("JamPASETOInvalidTokenFormat", "Invalid token format.", <<>>)
        ELSE IF header # PasHeader("v1", "local")
        THEN Raise("JamPASETOInvalidTokenFormat", "Invalid PASETO header", <<>>)
        ELSE IF ~decoded.ok
        THEN Raise("JamPASETOInvalidSymmetricKey", "Failed to decode base64url", <<>>)
        ELSE IF Len(decoded.value) < 80
        THEN Raise("JamPASETOInvalidTokenFormat", "Invalid payload size.", <<>>)
        ELSE IF ~footer_decoded.ok
        THEN Raise("JamPASETOInvalidSymmetricKey", "Failed to decode base64url", <<>>)
        ELSE PASETOv1_open_local(c, header, pl, DropLastN(ciphertext_tag, 48),
                                 LastN(ciphertext_tag, 48), footer_decoded.value)

\* PASETOv1._decode_public(token, serializer)
PASETOv1_decode_public(c, token) ==
    LET parts == SplitDots(token)
        header == parts[1] \o Dot \o parts[2] \o Dot
        decoded == base64url_decode(parts[3])
        footer_part == IF Len(parts) > 3 THEN parts[4] ELSE <<>>
        footer_decoded == IF footer_part # <<>> THEN base64url_decode(footer_part)
                          ELSE [ok |-> TRUE, value |-> <<>>]
        key_size == c.public_key.v[2] \div 8
        payload == DropLastN(decoded.value, key_size)
        signature == LastN(decoded.value, key_size)
        pre_auth == pae(<<header, payload, footer_decoded.value>>)
        payload_data == JsonEncoder_loads(payload)
    IN  IF Len(parts) < 3
        THEN Raise("JamPASETOInvalidTokenFormat", "Invalid token format.", <<>>)
        ELSE IF header # PasHeader("v1", "public")
        THEN Raise("JamPASETOInvalidTokenFormat", "Invalid PASETO header", <<>>)
        ELSE IF ~decoded.ok
        THEN Raise("JamPASETOInvalidSymmetricKey", "Failed to decode base64url", <<>>)
        ELSE IF Len(decoded.value) < 256
        THEN Raise("JamPASETOInvalidTokenFormat", "Invalid token body,", <<>>)
        ELSE IF c.public_key = None
        THEN Raise("AttributeError", "key_size", <<>>)
        ELSE IF Len(decoded.value) < key_size
        THEN Raise("JamPASETOInvalidTokenFormat", "Invalid payload/signature size", <<>>)
        ELSE IF ~footer_decoded.ok
        THEN Raise("JamPASETOInvalidSymmetricKey", "Failed to decode base64url", <<>>)
        ELSE IF ~rsa_verify(c.public_key, signature, pre_auth, 2, "sha384")
        THEN Raise("JamPASTOKeyVerificationError", "Key verification failed.",
                   <<"verify">>)
        ELSE IF ~payload_data.ok
        THEN Raise("JSONDecodeError", "Expecting value", <<"verify">>)
        ELSE Return(<<payload_data.value, PasFooterValue(footer_decoded.value)>>,
                    <<"verify">>)

\* PASETOv1.decode(token)
PASETOv1_decode(c, token) ==
    IF StartsWith(token, V1 \o Dot \o LocalText)
    THEN PASETOv1_decode_local(c, token)
    ELSE IF StartsWith(token, V1 \o Dot \o PublicText)
    THEN PASETOv1_decode_public(c, token)
    ELSE Raise("JamPASETOInvalidPurpose", "Invalid purpose.", <<>>)

\* PASETOv2._encode_local(header, payload, footer)
PASETOv2_encode_local(c, header, payload, footer, r) ==
    LET bfooter == IF footer = None THEN <<>> ELSE footer
        nonce == token_bytes(24, r)
        aad == pae(<<header, bfooter>>)
        ciphertext == xchacha20poly1305_encrypt(c.secret.v, nonce, payload, aad)
        token == header \o base64url_encode(nonce \o ciphertext)
    IN  IF bfooter # <<>>
        THEN Return(token \o Dot \o base64url_encode(bfooter), <<"xchacha20poly1305_encrypt">>)
        ELSE Return(token, <<"xchacha20poly1305_encrypt">>)

\* PASETOv2.encode(payload, footer)
PASETOv2_encode(c, payload, footer, r) ==
    LET header == PasHeader("v2", c.purpose)
        payload_bytes == JsonEncoder_dumps(payload)
        footer_bytes == IF Truthy(footer) THEN JsonEncoder_dumps(footer) ELSE None
    IN  IF c.purpose = "local"
        THEN PASETOv2_encode_local(c, header, payload_bytes, footer_bytes, r)
        ELSE Raise("NotImplementedError", "", <<>>)

\* PASETOv2._decode_local(token, serializer)
PASETOv2_decode_local(c, token) ==
    LET parts == SplitDots(token)
        header == parts[1] \o Dot \o parts[2] \o Dot
        body == base64url_decode(parts[3])
        footer == IF Len(parts) > 3 THEN base64url_decode(parts[4])
                  ELSE [ok |-> TRUE, value |-> <<>>]
        nonce == Slice(body.value, 0, 24)
        ciphertext == Slice(body.value, 24, Len(body.value))
        aad == pae(<<header, footer.value>>)
        plaintext == xchacha20poly1305_decrypt(c.secret, nonce, ciphertext, aad)
        payload == JsonEncoder_loads(plaintext.value)
    IN  IF Len(parts) < 3
        THEN Raise("ValueError", "Invalid token format", <<>>)
        ELSE IF header # PasHeader("v2", "local")
        THEN Raise("ValueError", "Invalid header", <<>>)
        ELSE IF ~body.ok \/ ~footer.ok
        THEN Raise("JamPASETOInvalidSymmetricKey", "Failed to decode base64url", <<>>)
        ELSE IF ~plaintext.ok
        THEN Raise("ValueError", "Invalid authentication or corrupt ciphertext",
                   <<"xchacha20poly1305_decrypt">>)
        ELSE IF ~payload.ok
        THEN Raise("JSONDecodeError", "Expecting value", <<"xchacha20poly1305_decrypt">>)
        ELSE Return(<<payload.value, PasFooterValue(footer.value)>>,
                    <<"xchacha20poly1305_decrypt">>)

\* PASETOv2.decode(token)
PASETOv2_decode(c, token) ==
    IF StartsWith(token, V2 \o Dot \o LocalText)
    THEN PASETOv2_decode_local(c, token)
    ELSE Raise("NotImplementedError", "", <<>>)

\* the classmethod and the methods of the class of a version
PASETO_key(version, purpose, key) ==
    IF version = "v1" THEN PASETOv1_key(purpose, key) ELSE PASETOv2_key(purpose, key)

PASETO_encode(c, payload, footer, r) ==
    IF c.version = "v1" THEN PASETOv1_encode(c, payload, footer, r)
    ELSE PASETOv2_encode(c, payload, footer, r)

PASETO_decode(c, token) ==
    IF c.version = "v1" THEN PASETOv1_decode(c, token) ELSE PASETOv2_decode(c, token)

(***************************************************************************)
(* The calls as the steps a thread runs them in, and what a call leaves of *)
(* the instance it ran on.  Another thread's step can fall between the two *)
(* steps of a call: the first step reads what the method reads of self     *)
(* before it reaches the key, the second reads the key.  encode and decode *)
(* assign to no attribute of self: the instance after a call is the        *)
(* instance before it.                                                     *)
(***************************************************************************)
\* a decode that keeps the key it verified with, a memo no call needs
JWT_decode_self_keeps_key(c, public_key) ==
    IF public_key # None THEN [c EXCEPT !.secret = public_key] ELSE c

\* self after JWT.encode and after JWT.decode
JWT_encode_self(c) == c
JWT_decode_self(c, public_key) == c

\* self after the encode and the decode of a PASETO class
PASETO_encode_self(c) == c
PASETO_decode_self(c, token) == c

\* JWT.encode up to the signing input: header, header_encoded, payload_encoder
JWT_encode_input(c, payload) ==
    jwt_base64url_encode(JsonEncoder_dumps(HeaderOf(c.alg)))
        \o Dot \o jwt_base64url_encode(JsonEncoder_dumps(payload))

\* JWT.encode from self.__sign on
JWT_encode_signed(c, input, r) ==
    LET signature == JWT_sign(c, input, r)
    IN  IF signature.ok
        THEN Return(input \o Dot \o signature.value, signature.ops)
        ELSE signature

\* JWT.decode up to the algorithm check: an exception, or the locals the
\* verification goes on with
JWT_decode_checked(c, token) ==
    LET parts == SplitDots(token)
        header_bytes == jwt_base64url_decode(parts[1])
        payload_bytes == jwt_base64url_decode(parts[2])
        header == JsonEncoder_loads(header_bytes.value)
        payload == JsonEncoder_loads(payload_bytes.value)
        signature == jwt_base64url_decode(parts[3])
    IN  IF Len(parts) # 3
        THEN Raise("ValueError", "Invalid token format", <<>>)
        ELSE IF ~header_bytes.ok \/ ~header.ok \/ ~payload_bytes.ok \/ ~payload.ok
        THEN Raise("ValueError", "Failed to decode token", <<>>)
        ELSE IF ~signature.ok
        THEN Raise("Base64Error", "Failed to decode base64url", <<>>)
        ELSE IF JWT_alg_mismatch(c, header.value)
        THEN Raise("ValueError", "Algorithm mismatch", <<>>)
        ELSE Return([alg |-> c.alg, payload |-> payload.value,
                     signing_input |-> parts[1] \o Dot \o parts[2],
                     signature |-> signature.value], <<>>)

\* JWT.decode from the verification on: alg is the local of the first step,
\* the key is read from self now
JWT_decode_verified(c, locals, public_key) ==
    JWT_verify([c EXCEPT !.alg = locals.alg], locals.payload,
               locals.signing_input, locals.signature, public_key)

\* encode of a PASETO class up to the dispatch on the purpose: the header
\* and the serialized payload and footer
PASETO_encode_locals(c, payload, footer) ==
    [header |-> PasHeader(c.version, c.purpose),
     payload |-> JsonEncoder_dumps(payload),
     footer |-> IF Truthy(footer) THEN JsonEncoder_dumps(footer)
                ELSE IF c.version = "v1" THEN <<>> ELSE None]

\* encode of a PASETO class from the dispatch on the purpose on
PASETO_encode_dispatched(c, locals, r) ==
    IF c.version = "v1"
    THEN IF c.purpose = "local"
         THEN PASETOv1_encode_local(c, locals.header, locals.payload, locals.footer, r)
         ELSE IF c.purpose = "public"
         THEN PASETOv1_encode_public(c, locals.header, locals.payload, locals.footer, r)
         ELSE Raise("JamPASETOInvalidPurpose", "Invalid purpose.", <<>>)
    ELSE IF c.purpose = "local"
         THEN PASETOv2_encode_local(c, locals.header, locals.payload, locals.footer, r)
         ELSE Raise("NotImplementedError", "", <<>>)

(***************************************************************************)
(* The JWT scenarios: codecs are constructed, one encodes a payload, a bit *)
(* of the token's signature segment may be flipped on the way, and any     *)
(* codec decodes what arrives.                                             *)
(***************************************************************************)
\* bounds: the signature characters a flip may hit are the first FlipHead
\* and the last FlipTail ones; a randomized signature draws from 0..MaxSalt
FlipHead == 1
FlipTail == 1
MaxSalt == 1

RSAKey1 == KeyObj("RSAPrivateKey", 1, 512)
RSAKey2 == KeyObj("RSAPrivateKey", 2, 512)
ECKey1 == KeyObj("ECPrivateKey", 1, 384)
ECKey2 == KeyObj("ECPrivateKey", 2, 256)

SecretK == Str(<<107>>)
SecretWrong == Str(<<119, 114, 111, 110, 103>>)

\* the secrets a codec of an algorithm is constructed with: for HMAC two
\* secrets; for the others a private key as PEM text and as a key object,
\* another pair's private key, and a public key alone
JWTSecrets(alg) ==
    IF AlgPrefix(alg) = "HS" THEN {SecretK, SecretWrong}
    ELSE LET k1 == IF AlgPrefix(alg) = "ES" THEN ECKey1 ELSE RSAKey1
             k2 == IF AlgPrefix(alg) = "ES" THEN ECKey2 ELSE RSAKey2
         IN  {Str(PemOf(k1)), k1, Str(PemOf(k2)), Str(PemOf(public_key_of(k1)))}

JWTCodecs ==
    UNION {{JWT_init(alg, secret) : secret \in JWTSecrets(alg)} : alg \in Algs}

\* the public_key arguments of decode: none, or the first pair's public key;
\* for HMAC none, or the secret "wrong"
JWTPublicKeys(alg) ==
    IF AlgPrefix(alg) = "HS" THEN {None, SecretWrong}
    ELSE IF AlgPrefix(alg) = "ES"
    THEN {None, Str(PemOf(public_key_of(ECKey1)))}
    ELSE {None, Str(PemOf(public_key_of(RSAKey1)))}

NoCall == [op |-> "none"]

FlipBit(c, b) == IF (c \div (2 ^ b)) % 2 = 1 THEN c - 2 ^ b ELSE c + 2 ^ b

\* the positions in the token of the signature characters a flip may hit
JWTFlipPositions(token) ==
    LET parts == SplitDots(token)
        start == Len(parts[1]) + Len(parts[2]) + 2
        n == Len(parts[3])
    IN  IF Len(parts) # 3 THEN {}
        ELSE {start + i : i \in ((1..FlipHead) \cup ((n - FlipTail + 1)..n)) \cap (1..n)}

JWTInit ==
    /\ jwt_token = <<>>
    /\ jwt_made = None
    /\ jwt_call = NoCall
    /\ pas_token = <<>>
    /\ pas_made = None
    /\ pas_call = NoCall
    /\ pae_in = None
    /\ pae_out = None
    /\ jam_inst = None
    /\ jam_call = NoCall
    /\ sh_inst = None
    /\ sh_procs = None
    /\ jam_list = None
    /\ clock = 0
    /\ ses_inst = None
    /\ ses_db = None
    /\ ses_log = None
    /\ ses_call = NoCall
    /\ ses_procs = None

JWTEncode(c, p, r) ==
    LET out == JWT_encode(c, p, r)
    IN  /\ jwt_made = None
        /\ r = 0 \/ AlgPrefix(c.alg) \in {"ES", "PS"}
        /\ jwt_call' = [op |-> "encode", codec |-> c, pk |-> None, out |-> out]
        /\ IF out.ok
           THEN /\ jwt_token' = out.value
                /\ jwt_made' = [codec |-> c, payload |-> p, flipped |-> FALSE,
                                token |-> out.value]
           ELSE UNCHANGED <<jwt_token, jwt_made>>
        /\ UNCHANGED notJWT

JWTFlipSignatureBit(pos, bit) ==
    /\ jwt_made # None
    /\ jwt_call.op = "encode"
    /\ ~jwt_made.flipped
    /\ pos \in JWTFlipPositions(jwt_token)
    /\ jwt_token' = [jwt_token EXCEPT ![pos] = FlipBit(@, bit)]
    /\ jwt_made' = [jwt_made EXCEPT !.flipped = TRUE]
    /\ UNCHANGED <<jwt_call, notJWT>>

\* one decode ends a scenario; a token with a flipped bit is decoded by the
\* codec that made it
JWTDecode(c, pk) ==
    /\ jwt_made # None
    /\ jwt_call.op = "encode"
    /\ jwt_made.flipped => c = jwt_made.codec
    /\ jwt_call' = [op |-> "decode", codec |-> c, pk |-> pk,
                    out |-> JWT_decode(c, jwt_token, pk)]
    /\ UNCHANGED <<jwt_token, jwt_made, notJWT>>

JWTNext ==
    \/ \E c \in JWTCodecs, p \in Payloads, r \in 0..MaxSalt : JWTEncode(c, p, r)
    \/ \E pos \in JWTFlipPositions(jwt_token), bit \in 0..7 :
            JWTFlipSignatureBit(pos, bit)
    \/ \E c \in JWTCodecs : \E pk \in JWTPublicKeys(c.alg) : JWTDecode(c, pk)

\* the key a secret or public_key value stands for: the key pair of a key
\* object or of PEM text, else the bytes of the text
JWTKeyIdentity(k) ==
    IF k.t = "str"
    THEN IF load_pem_private_key(k.v).ok
         THEN <<"pair", PairFp(load_pem_private_key(k.v).value)>>
         ELSE IF load_pem_public_key(k.v).ok
         THEN <<"pair", PairFp(load_pem_public_key(k.v).value)>>
         ELSE <<"bytes", k.v>>
    ELSE IF k.t = "bytes" THEN <<"bytes", k.v>>
    ELSE <<"pair", PairFp(k)>>

\* the key a decode call verifies with: public_key when given, else the secret
JWTDecodeKey(call) ==
    IF call.pk # None /\ AlgPrefix(call.codec.alg) # "HS"
    THEN JWTKeyIdentity(call.pk)
    ELSE JWTKeyIdentity(call.codec.secret)

JWTDecoded == jwt_call.op = "decode"

SpecJWT == JWTInit /\ [][JWTNext]_vars

(***************************************************************************)
(* The PASETO scenarios: key() is called on key material; a codec it       *)
(* returned encodes a payload; a byte of the ciphertext or tag of a local  *)
(* token may be changed on the way; any codec decodes what arrives.        *)
(***************************************************************************)
\* bound: the bytes a change may hit are the first TamperEdge and the last
\* TamperEdge ones of the ciphertext and of the tag
TamperEdge == 1

\* what is added (mod 256) to the byte that is changed
TamperDeltas == {1, 128}

LocalKey1 == [i \in 1..32 |-> i]
LocalKey2 == [i \in 1..32 |-> 2 * i]
Key31 == [i \in 1..31 |-> i]
Key33 == [i \in 1..33 |-> i]

PasRSAKey1 == KeyObj("RSAPrivateKey", 1, 2048)
PasRSAKey2 == KeyObj("RSAPrivateKey", 2, 1024)
EdKey1 == KeyObj("Ed25519PrivateKey", 1, 256)
EdPublicRaw1 == [i \in 1..32 |-> IF i = 1 THEN 1 ELSE 200 + i]

Versions == {"v1", "v2"}
Purposes == {"local", "public"}

\* the key material key() is called with, for a version and a purpose
PasKeyInputs(version, purpose) ==
    IF purpose = "local"
    THEN {Bytes(LocalKey1), Bytes(LocalKey2), Bytes(Key31), Bytes(Key33),
          Str(base64url_encode(LocalKey1)), Str(base64url_encode(Key33))}
    ELSE IF version = "v1"
    THEN {Str(PemOf(PasRSAKey1)), Str(PemOf(public_key_of(PasRSAKey1))),
          PasRSAKey1, public_key_of(PasRSAKey1), Str(PemOf(PasRSAKey2))}
    ELSE {Str(PemOf(EdKey1)), Str(PemOf(public_key_of(EdKey1))), Bytes(EdPublicRaw1)}

\* the codecs key() returns
PasCodecs ==
    UNION {UNION {{PASETO_key(v, p, k).value :
                        k \in {x \in PasKeyInputs(v, p) : PASETO_key(v, p, x).ok}}
                  : p \in Purposes} : v \in Versions}

Footers == {None, FooterKid, EmptyDict, FooterText, EmptyText}

\* the body of a token: the bytes of its third segment
PasBody(token) == base64url_decode(SplitDots(token)[3]).value

\* the version a token names
VersionOfToken(token) == IF StartsWith(token, V2) THEN "v2" ELSE "v1"

\* the 0-based positions in the body of a local token of the ciphertext and
\* tag bytes a change may hit
PasTamperPositions(token, version) ==
    LET parts == SplitDots(token)
        n == Len(PasBody(token))
        first == IF version = "v1" THEN 32 ELSE 24
        taglen == IF version = "v1" THEN 48 ELSE 16
        edge(lo, hi) == {i \in lo..hi : i < lo + TamperEdge \/ i > hi - TamperEdge}
    IN  IF Len(parts) < 3 \/ parts[2] # LocalText THEN {}
        ELSE edge(first, n - taglen - 1) \cup edge(n - taglen, n - 1)

\* the token with body byte pos changed by d
PasTampered(token, pos, d) ==
    LET parts == SplitDots(token)
        body == PasBody(token)
        changed == [body EXCEPT ![pos + 1] = (@ + d) % 256]
        head == parts[1] \o Dot \o parts[2] \o Dot \o base64url_encode(changed)
    IN  IF Len(parts) > 3 THEN head \o Dot \o parts[4] ELSE head

PasInit ==
    /\ pas_token = <<>>
    /\ pas_made = None
    /\ pas_call = NoCall
    /\ jwt_token = <<>>
    /\ jwt_made = None
    /\ jwt_call = NoCall
    /\ pae_in = None
    /\ pae_out = None
    /\ jam_inst = None
    /\ jam_call = NoCall
    /\ sh_inst = None
    /\ sh_procs = None
    /\ jam_list = None
    /\ clock = 0
    /\ ses_inst = None
    /\ ses_db = None
    /\ ses_log = None
    /\ ses_call = NoCall
    /\ ses_procs = None

PasKey(version, purpose, key) ==
    /\ pas_call = NoCall
    /\ pas_call' = [op |-> "key", version |-> version, purpose |-> purpose,
                    key |-> key, out |-> PASETO_key(version, purpose, key)]
    /\ UNCHANGED <<pas_token, pas_made, notPaseto>>

PasEncode(c, p, f, r) ==
    LET out == PASETO_encode(c, p, f, r)
    IN  /\ pas_call = NoCall
        /\ pas_call' = [op |-> "encode", codec |-> c, out |-> out]
        /\ IF out.ok
           THEN /\ pas_token' = out.value
                /\ pas_made' = [codec |-> c, payload |-> p, footer |-> f,
                                token |-> out.value, changed |-> FALSE]
           ELSE UNCHANGED <<pas_token, pas_made>>
        /\ UNCHANGED notPaseto

PasChangeByte(pos, d) ==
    /\ pas_made # None
    /\ pas_call.op = "encode"
    /\ ~pas_made.changed
    /\ pas_made.codec.purpose = "local"
    /\ pos \in PasTamperPositions(pas_token, VersionOfToken(pas_token))
    /\ pas_token' = PasTampered(pas_token, pos, d)
    /\ pas_made' = [pas_made EXCEPT !.changed = TRUE]
    /\ UNCHANGED <<pas_call, notPaseto>>

\* one decode ends a scenario; a token with a changed byte is decoded by the
\* local codecs of its version
PasDecode(c) ==
    /\ pas_made # None
    /\ pas_call.op = "encode"
    /\ pas_made.changed =>
            (c.version = pas_made.codec.version /\ c.purpose = "local")
    /\ pas_call' = [op |-> "decode", codec |-> c, out |-> PASETO_decode(c, pas_token)]
    /\ UNCHANGED <<pas_token, pas_made, notPaseto>>

PasNext ==
    \/ \E v \in Versions, p \in Purposes : \E k \in PasKeyInputs(v, p) : PasKey(v, p, k)
    \/ \E c \in PasCodecs, p \in Payloads, f \in Footers, r \in 0..MaxSalt :
            PasEncode(c, p, f, r)
    \/ \E pos \in PasTamperPositions(pas_token, VersionOfToken(pas_token)),
            d \in TamperDeltas : PasChangeByte(pos, d)
    \/ \E c \in PasCodecs : PasDecode(c)

SpecPaseto == PasInit /\ [][PasNext]_vars

(***************************************************************************)
(* Scenarios of __pae__: two lists of pieces are encoded.                  *)
(***************************************************************************)
\* the longest list of pieces
MaxPieces == 2

\* b"", b"a", b"ab", b"cd", b"abcd", b"bcd"
Pieces == {<<>>, <<97>>, <<97, 98>>, <<99, 100>>, <<97, 98, 99, 100>>,
           <<98, 99, 100>>}

PieceLists == UNION {[1..n -> Pieces] : n \in 0..MaxPieces}

PaeInit ==
    /\ pae_in \in [a : PieceLists, b : PieceLists]
    /\ pae_out = None
    /\ jwt_token = <<>>
    /\ jwt_made = None
    /\ jwt_call = NoCall
    /\ pas_token = <<>>
    /\ pas_made = None
    /\ pas_call = NoCall
    /\ jam_inst = None
    /\ jam_call = NoCall
    /\ sh_inst = None
    /\ sh_procs = None
    /\ jam_list = None
    /\ clock = 0
    /\ ses_inst = None
    /\ ses_db = None
    /\ ses_log = None
    /\ ses_call = NoCall
    /\ ses_procs = None

PaeCall ==
    /\ pae_out = None
    /\ pae_out' = [a |-> pae(pae_in.a), b |-> pae(pae_in.b)]
    /\ UNCHANGED <<pae_in, notPae>>

PaeNext == PaeCall

SpecPae == PaeInit /\ [][PaeNext]_vars

(***************************************************************************)
(* Scenarios of segments: a token is encoded, arrives with its last        *)
(* segment dropped or emptied or with segments added, and is decoded by    *)
(* the codec that made it.                                                 *)
(***************************************************************************)
SegVariants == {"as_is", "drop_last", "empty_last", "extra", "extra2"}

\* the text "AA", a segment that is valid base64url
ExtraSegment == <<65, 65>>

\* the token as it arrives
Resegmented(token, variant) ==
    LET dots == {i \in 1..Len(token) : token[i] = 46}
        last == CHOOSE i \in dots : \A j \in dots : j <= i
    IN  IF variant = "drop_last" THEN SubSeq(token, 1, last - 1)
        ELSE IF variant = "empty_last" THEN SubSeq(token, 1, last)
        ELSE IF variant = "extra" THEN token \o Dot \o ExtraSegment
        ELSE IF variant = "extra2"
        THEN token \o Dot \o ExtraSegment \o Dot \o ExtraSegment
        ELSE token

SegInit ==
    /\ jwt_token = <<>>
    /\ jwt_made = None
    /\ jwt_call = NoCall
    /\ pas_token = <<>>
    /\ pas_made = None
    /\ pas_call = NoCall
    /\ pae_in = None
    /\ pae_out = None
    /\ jam_inst = None
    /\ jam_call = NoCall
    /\ sh_inst = None
    /\ sh_procs = None
    /\ jam_list = None
    /\ clock = 0
    /\ ses_inst = None
    /\ ses_db = None
    /\ ses_log = None
    /\ ses_call = NoCall
    /\ ses_procs = None

\* a scenario is of one codec, JWT or PASETO
SegJWTEncode(c, p, r) == pas_call = NoCall /\ JWTEncode(c, p, r)

SegPasEncode(c, p, f, r) == jwt_call = NoCall /\ PasEncode(c, p, f, r)

SegJWTDecode(variant, pk) ==
    LET token == Resegmented(jwt_token, variant)
    IN  /\ jwt_made # None
        /\ jwt_call.op = "encode"
        /\ jwt_call' = [op |-> "decode_segments", codec |-> jwt_made.codec, pk |-> pk,
                        token |-> token,
                        out |-> JWT_decode(jwt_made.codec, token, pk)]
        /\ UNCHANGED <<jwt_token, jwt_made, notJWT>>

SegPasDecode(variant) ==
    LET token == Resegmented(pas_token, variant)
    IN  /\ pas_made # None
        /\ pas_call.op = "encode"
        /\ pas_call' = [op |-> "decode_segments", codec |-> pas_made.codec,
                        token |-> token,
                        out |-> PASETO_decode(pas_made.codec, token)]
        /\ UNCHANGED <<pas_token, pas_made, notPaseto>>

SegNext ==
    \/ \E c \in JWTCodecs, p \in Payloads, r \in 0..MaxSalt : SegJWTEncode(c, p, r)
    \/ \E v \in SegVariants :
            \E pk \in IF jwt_made = None THEN {} ELSE JWTPublicKeys(jwt_made.codec.alg) :
                SegJWTDecode(v, pk)
    \/ \E c \in PasCodecs, p \in Payloads, f \in Footers, r \in 0..MaxSalt :
            SegPasEncode(c, p, f, r)
    \/ \E v \in SegVariants : SegPasDecode(v)

SpecSegments == SegInit /\ [][SegNext]_vars

(***************************************************************************)
(* Scenarios of ECDSA signatures: an ES token is encoded, arrives with a   *)
(* signature of another length, and is verified.                           *)
(***************************************************************************)
\* by how many bytes the signature gets shorter or longer
MaxResize == 1

ESCodecs == {c \in JWTCodecs : AlgPrefix(c.alg) = "ES"}

\* the signature d bytes longer (zero bytes put in front of s) or -d bytes
\* shorter (the last bytes dropped)
ResizedSignature(sig, d) ==
    LET n == Len(sig) \div 2
    IN  IF d < 0 THEN SubSeq(sig, 1, Len(sig) + d)
        ELSE SubSeq(sig, 1, n) \o [i \in 1..d |-> 0] \o SubSeq(sig, n + 1, Len(sig))

ESInit ==
    /\ jwt_token = <<>>
    /\ jwt_made = None
    /\ jwt_call = NoCall
    /\ pas_token = <<>>
    /\ pas_made = None
    /\ pas_call = NoCall
    /\ pae_in = None
    /\ pae_out = None
    /\ jam_inst = None
    /\ jam_call = NoCall
    /\ sh_inst = None
    /\ sh_procs = None
    /\ jam_list = None
    /\ clock = 0
    /\ ses_inst = None
    /\ ses_db = None
    /\ ses_log = None
    /\ ses_call = NoCall
    /\ ses_procs = None

\* JWT.decode of the token with the signature resized, and
\* ESAlgorithm.verify of the same signature with the same key
ESDecodeResized(c, pk, d) ==
    LET parts == SplitDots(jwt_token)
        signature == ResizedSignature(jwt_base64url_decode(parts[3]).value, d)
        signing_input == parts[1] \o Dot \o parts[2]
        token == signing_input \o Dot \o jwt_base64url_encode(signature)
    IN  /\ jwt_made # None
        /\ jwt_call.op = "encode"
        /\ c.alg = jwt_made.codec.alg
        /\ jwt_call' = [op |-> "decode_resized", codec |-> c, pk |-> pk,
                        signature |-> signature,
                        out |-> JWT_decode(c, token, pk),
                        alg_out |-> ESAlgorithm_verify(c.alg, signature, signing_input,
                                        IF pk # None THEN pk ELSE c.secret)]
        /\ UNCHANGED <<jwt_token, jwt_made, notJWT>>

ESNext ==
    \/ \E c \in ESCodecs, p \in Payloads, r \in 0..MaxSalt : JWTEncode(c, p, r)
    \/ \E c \in ESCodecs : \E pk \in JWTPublicKeys(c.alg) :
            \E d \in (-MaxResize)..MaxResize : ESDecodeResized(c, pk, d)

SpecECDSA == ESInit /\ [][ESNext]_vars

(***************************************************************************)
(* Scenarios of a refused token: a token is encoded; it is decoded with    *)
(* the right key after a change on the way, and, unchanged, with a wrong   *)
(* key, by a codec of the same algorithm or version and purpose.           *)
(***************************************************************************)
\* the public_key the token of codec c verifies with
VerRightKey(c) ==
    IF AlgPrefix(c.alg) = "HS" THEN None
    ELSE Str(PemOf(public_key_of(JWT_private_key(c).value)))

\* the decoders holding a wrong key: for HMAC the codecs of the other
\* secrets, else the codec given the public key of another pair
VerWrongDecoders(c) ==
    IF AlgPrefix(c.alg) = "HS"
    THEN {[codec |-> JWT_init(c.alg, sec), pk |-> None] :
                sec \in JWTSecrets(c.alg) \ {c.secret}}
    ELSE {[codec |-> c, pk |-> Str(PemOf(public_key_of(k)))] :
                k \in {x \in {RSAKey1, RSAKey2, ECKey1, ECKey2} :
                            PairFp(x) # PairFp(JWT_private_key(c).value)}}

\* the 0-based positions in the body of a token a change may hit: of a
\* local token its ciphertext and tag, of a public token its first and
\* last bytes
VerTamperPositions(token) ==
    LET parts == SplitDots(token)
        n == Len(PasBody(token))
    IN  IF Len(parts) < 3 THEN {}
        ELSE IF parts[2] = LocalText
        THEN PasTamperPositions(token, VersionOfToken(token))
        ELSE {i \in 0..(n - 1) : i < TamperEdge \/ i > n - 1 - TamperEdge}

VerInit ==
    /\ jwt_token = <<>>
    /\ jwt_made = None
    /\ jwt_call = NoCall
    /\ pas_token = <<>>
    /\ pas_made = None
    /\ pas_call = NoCall
    /\ pae_in = None
    /\ pae_out = None
    /\ jam_inst = None
    /\ jam_call = NoCall
    /\ sh_inst = None
    /\ sh_procs = None
    /\ jam_list = None
    /\ clock = 0
    /\ ses_inst = None
    /\ ses_db = None
    /\ ses_log = None
    /\ ses_call = NoCall
    /\ ses_procs = None

\* a scenario is of one codec, JWT or PASETO
VerJWTEncode(c, p, r) == pas_call = NoCall /\ JWTEncode(c, p, r)

VerPasEncode(c, p, f, r) == jwt_call = NoCall /\ PasEncode(c, p, f, r)

\* decode, with the right key, of the token with a signature bit flipped
VerJWTChanged(pos, bit) ==
    LET c == jwt_made.codec
        token == [jwt_token EXCEPT ![pos] = FlipBit(@, bit)]
    IN  /\ jwt_made # None
        /\ jwt_call.op = "encode"
        /\ pos \in JWTFlipPositions(jwt_token)
        /\ jwt_call' = [op |-> "changed", codec |-> c, pk |-> VerRightKey(c),
                        out |-> JWT_decode(c, token, VerRightKey(c))]
        /\ UNCHANGED <<jwt_token, jwt_made, notJWT>>

\* decode of the token as it was made, with a wrong key
VerJWTWrongKey(d) ==
    /\ jwt_made # None
    /\ jwt_call.op = "changed"
    /\ jwt_call' = [op |-> "compared", codec |-> d.codec, pk |-> d.pk,
                    changed_out |-> jwt_call.out,
                    out |-> JWT_decode(d.codec, jwt_token, d.pk)]
    /\ UNCHANGED <<jwt_token, jwt_made, notJWT>>

\* decode, by the codec that made it, of the token with a body byte changed
VerPasChanged(pos, d) ==
    /\ pas_made # None
    /\ pas_call.op = "encode"
    /\ pos \in VerTamperPositions(pas_token)
    /\ pas_call' = [op |-> "changed", codec |-> pas_made.codec,
                    out |-> PASETO_decode(pas_made.codec, PasTampered(pas_token, pos, d))]
    /\ UNCHANGED <<pas_token, pas_made, notPaseto>>

\* decode of the token as it was made, by a codec of its version and
\* purpose that holds another key
VerPasWrongKey(c) ==
    /\ pas_made # None
    /\ pas_call.op = "changed"
    /\ c.version = pas_made.codec.version
    /\ c.purpose = pas_made.codec.purpose
    /\ IF c.purpose = "local" THEN c.secret # pas_made.codec.secret
       ELSE c.public_key # pas_made.codec.public_key
    /\ pas_call' = [op |-> "compared", codec |-> c, changed_out |-> pas_call.out,
                    out |-> PASETO_decode(c, pas_token)]
    /\ UNCHANGED <<pas_token, pas_made, notPaseto>>

VerNext ==
    \/ \E c \in JWTCodecs, p \in Payloads, r \in 0..MaxSalt : VerJWTEncode(c, p, r)
    \/ \E pos \in JWTFlipPositions(jwt_token), bit \in 0..7 : VerJWTChanged(pos, bit)
    \/ \E d \in IF jwt_made = None THEN {} ELSE VerWrongDecoders(jwt_made.codec) :
            VerJWTWrongKey(d)
    \/ \E c \in PasCodecs, p \in Payloads, f \in Footers, r \in 0..MaxSalt :
            VerPasEncode(c, p, f, r)
    \/ \E pos \in VerTamperPositions(pas_token), d \in TamperDeltas :
            VerPasChanged(pos, d)
    \/ \E c \in PasCodecs : VerPasWrongKey(c)

SpecVerify == VerInit /\ [][VerNext]_vars

(***************************************************************************)
(* Scenarios of construction: a JWT codec or a Jam instance is constructed *)
(* from a configuration and then used for the first time.                  *)
(***************************************************************************)
\* the "jwt" sections of a configuration: an algorithm identifier, and a
\* secret, a private key as PEM text, or no secret
JamJWTSections ==
    [alg : Algs \cup UnsupportedAlgs, secret : {SecretK, Str(PemOf(RSAKey1)), None}]

\* the configurations: without a "jwt" section, or with one
JamConfigs == {[jwt |-> None]} \cup {[jwt |-> sec] : sec \in JamJWTSections}

\* a token of another party, given to the first decode
JamForeignToken == JWT_encode(JWT_init("HS256", SecretK), PayloadSub, 0).value

JamInit ==
    /\ jam_inst = None
    /\ jam_call = NoCall
    /\ jwt_token = <<>>
    /\ jwt_made = None
    /\ jwt_call = NoCall
    /\ pas_token = <<>>
    /\ pas_made = None
    /\ pas_call = NoCall
    /\ pae_in = None
    /\ pae_out = None
    /\ sh_inst = None
    /\ sh_procs = None
    /\ jam_list = None
    /\ clock = 0
    /\ ses_inst = None
    /\ ses_db = None
    /\ ses_log = None
    /\ ses_call = NoCall
    /\ ses_procs = None

\* JWT(alg, secret)
JamConstructCodec(alg, secret) ==
    /\ jam_inst = None
    /\ jam_inst' = [jwt |-> JWT_init(alg, secret), logged |-> <<>>]
    /\ jam_call' = [op |-> "construct", config |-> [jwt |-> [alg |-> alg, secret |-> secret]],
                    out |-> Return(JWT_init(alg, secret), <<>>)]
    /\ UNCHANGED notJam

\* Jam(config)
JamConstruct(config) ==
    LET out == Jam_init(config)
    IN  /\ jam_inst = None
        /\ jam_inst' = out.value
        /\ jam_call' = [op |-> "construct", config |-> config, out |-> out]
        /\ UNCHANGED notJam

\* the first encode on what was constructed
JamCreateToken(p, r) ==
    /\ jam_inst # None
    /\ jam_call.op = "construct"
    /\ jam_call' = [op |-> "create_token", config |-> jam_call.config,
                    out |-> Jam_jwt_create_token(jam_inst, p, r)]
    /\ UNCHANGED <<jam_inst, notJam>>

\* the first decode on what was constructed
JamVerifyToken ==
    /\ jam_inst # None
    /\ jam_call.op = "construct"
    /\ jam_call' = [op |-> "verify_token", config |-> jam_call.config,
                    out |-> Jam_jwt_verify_token(jam_inst, JamForeignToken)]
    /\ UNCHANGED <<jam_inst, notJam>>

JamNext ==
    \/ \E alg \in Algs \cup UnsupportedAlgs, secret \in {SecretK, Str(PemOf(RSAKey1))} :
            JamConstructCodec(alg, secret)
    \/ \E config \in JamConfigs : JamConstruct(config)
    \/ \E p \in Payloads, r \in 0..MaxSalt : JamCreateToken(p, r)
    \/ JamVerifyToken

SpecJam == JamInit /\ [][JamNext]_vars

(***************************************************************************)
(* Scenarios of a shared instance: one codec is constructed and two        *)
(* callers run encode and decode on it, each call in two steps, in any     *)
(* order and any interleaving.                                             *)
(***************************************************************************)
Callers == {1, 2}

\* the instances shared: a codec of each JWT family and of each PASETO kind
ShInstances ==
    {[cls |-> "JWT", c |-> c] :
        c \in {JWT_init("HS256", SecretK), JWT_init("RS256", Str(PemOf(RSAKey1))),
               JWT_init("ES384", ECKey1)}}
    \cup {[cls |-> "PASETO", c |-> c] :
        c \in {PASETO_key("v1", "local", Bytes(LocalKey1)).value,
               PASETO_key("v1", "public", Str(PemOf(PasRSAKey1))).value,
               PASETO_key("v2", "local", Bytes(LocalKey1)).value}}

\* the tokens handed to decode: one the instance made, and one made with
\* another key
ShTokens(inst) ==
    IF inst.cls = "JWT"
    THEN {JWT_encode(inst.c, PayloadSub, 0).value,
          JWT_encode([inst.c EXCEPT !.secret =
                        CHOOSE k \in JWTSecrets(inst.c.alg) :
                            JWTKeyIdentity(k) # JWTKeyIdentity(inst.c.secret)],
                     PayloadSub, 0).value}
    ELSE {PASETO_encode(inst.c, PayloadSub, FooterKid, 0).value,
          PASETO_encode(PASETO_key(inst.c.version, "local", Bytes(LocalKey2)).value,
                        PayloadSub, None, 0).value}

\* the public_key arguments handed to the decode of a JWT instance
ShPublicKeys(inst) ==
    IF inst.cls = "JWT" THEN JWTPublicKeys(inst.constructed.alg) ELSE {None}

ShIdle == [pc |-> "idle"]

ShInit ==
    /\ \E inst \in ShInstances :
            sh_inst = [cls |-> inst.cls, constructed |-> inst.c, self |-> inst.c]
    /\ sh_procs = [p \in Callers |-> ShIdle]
    /\ jwt_token = <<>>
    /\ jwt_made = None
    /\ jwt_call = NoCall
    /\ pas_token = <<>>
    /\ pas_made = None
    /\ pas_call = NoCall
    /\ pae_in = None
    /\ pae_out = None
    /\ jam_inst = None
    /\ jam_call = NoCall
    /\ jam_list = None
    /\ clock = 0
    /\ ses_inst = None
    /\ ses_db = None
    /\ ses_log = None
    /\ ses_call = NoCall
    /\ ses_procs = None

\* a caller between the two steps of a call
ShMid(p) == sh_procs[p].pc = "mid"
ShOtherMid(p) == \E q \in Callers \ {p} : ShMid(q)

\* the first step of a call: the caller is free, the call's arguments and
\* what it read of self are its locals
ShBegin(p, op, args, locals) ==
    /\ sh_procs[p].pc # "mid"
    /\ sh_procs' = [sh_procs EXCEPT ![p] =
            [pc |-> "mid", op |-> op, args |-> args, locals |-> locals,
             overlapped |-> ShOtherMid(p)]]
    /\ UNCHANGED <<sh_inst, notShared>>

\* the second step of a call: it returns or raises, and leaves self
ShEnd(p, op, out, self) ==
    /\ ShMid(p)
    /\ sh_procs[p].op = op
    /\ sh_procs' = [sh_procs EXCEPT ![p] =
            [pc |-> "done", op |-> op, args |-> sh_procs[p].args, out |-> out,
             overlapped |-> sh_procs[p].overlapped \/ ShOtherMid(p)]]
    /\ sh_inst' = [sh_inst EXCEPT !.self = self]
    /\ UNCHANGED notShared

ShJWTEncodeBegin(p, payload, r) ==
    /\ sh_inst.cls = "JWT"
    /\ ShBegin(p, "encode", [payload |-> payload, r |-> r],
               JWT_encode_input(sh_inst.self, payload))

ShJWTEncodeEnd(p) ==
    /\ sh_inst.cls = "JWT"
    /\ ShEnd(p, "encode",
             JWT_encode_signed(sh_inst.self, sh_procs[p].locals, sh_procs[p].args.r),
             JWT_encode_self(sh_inst.self))

ShJWTDecodeBegin(p, token, pk) ==
    /\ sh_inst.cls = "JWT"
    /\ ShBegin(p, "decode", [token |-> token, pk |-> pk],
               JWT_decode_checked(sh_inst.self, token))

ShJWTDecodeEnd(p) ==
    /\ sh_inst.cls = "JWT"
    /\ ShEnd(p, "decode",
             IF sh_procs[p].locals.ok
             THEN JWT_decode_verified(sh_inst.self, sh_procs[p].locals.value,
                                      sh_procs[p].args.pk)
             ELSE sh_procs[p].locals,
             JWT_decode_self(sh_inst.self, sh_procs[p].args.pk))

ShPasEncodeBegin(p, payload, footer, r) ==
    /\ sh_inst.cls = "PASETO"
    /\ ShBegin(p, "encode", [payload |-> payload, footer |-> footer, r |-> r],
               PASETO_encode_locals(sh_inst.self, payload, footer))

ShPasEncodeEnd(p) ==
    /\ sh_inst.cls = "PASETO"
    /\ ShEnd(p, "encode",
             PASETO_encode_dispatched(sh_inst.self, sh_procs[p].locals,
                                      sh_procs[p].args.r),
             PASETO_encode_self(sh_inst.self))

ShPasDecodeBegin(p, token) ==
    /\ sh_inst.cls = "PASETO"
    /\ ShBegin(p, "decode", [token |-> token], token)

ShPasDecodeEnd(p) ==
    /\ sh_inst.cls = "PASETO"
    /\ ShEnd(p, "decode", PASETO_decode(sh_inst.self, sh_procs[p].locals),
             PASETO_decode_self(sh_inst.self, sh_procs[p].locals))

ShNext ==
    \/ \E p \in Callers, payload \in Payloads : ShJWTEncodeBegin(p, payload, 0)
    \/ \E p \in Callers : ShJWTEncodeEnd(p)
    \/ \E p \in Callers :
            \E token \in ShTokens([cls |-> sh_inst.cls, c |-> sh_inst.constructed]),
               pk \in ShPublicKeys(sh_inst) :
                    ShJWTDecodeBegin(p, token, pk)
    \/ \E p \in Callers : ShJWTDecodeEnd(p)
    \/ \E p \in Callers, footer \in {None, FooterKid} :
            ShPasEncodeBegin(p, PayloadSub, footer, 0)
    \/ \E p \in Callers : ShPasEncodeEnd(p)
    \/ \E p \in Callers :
            \E token \in ShTokens([cls |-> sh_inst.cls, c |-> sh_inst.constructed]) :
                    ShPasDecodeBegin(p, token)
    \/ \E p \in Callers : ShPasDecodeEnd(p)

SpecShared == ShInit /\ [][ShNext]_vars

\* what a call returns when it runs alone on the instance as constructed
ShAlone(inst, op, args) ==
    IF inst.cls = "JWT"
    THEN IF op = "encode" THEN JWT_encode(inst.constructed, args.payload, args.r)
         ELSE JWT_decode(inst.constructed, args.token, args.pk)
    ELSE IF op = "encode"
         THEN PASETO_encode(inst.constructed, args.payload, args.footer, args.r)
         ELSE PASETO_decode(inst.constructed, args.token)

(***************************************************************************)
(* Scenarios of a guarded verification: a Jam instance is constructed from *)
(* a configuration that names a list, it creates a token, the token is     *)
(* added to the list or deleted from it, time passes, and the token is     *)
(* verified with the expiry check and the list check asked for or not.     *)
(***************************************************************************)
GuardListConfigs ==
    [type : {"white", "black"}, backend : {"redis"}, in_list_life_time : {NoTime, 1}]

\* the payloads of the tokens: one without exp, and one for each expiry time
GuardPayloads == {PayloadSub} \cup {PayloadExp(t) : t \in 0..MaxClock}

GuardInit ==
    /\ jam_inst = None
    /\ jam_call = NoCall
    /\ jam_list = None
    /\ clock = 0
    /\ jwt_token = <<>>
    /\ jwt_made = None
    /\ jwt_call = NoCall
    /\ pas_token = <<>>
    /\ pas_made = None
    /\ pas_call = NoCall
    /\ pae_in = None
    /\ pae_out = None
    /\ sh_inst = None
    /\ sh_procs = None
    /\ ses_inst = None
    /\ ses_db = None
    /\ ses_log = None
    /\ ses_call = NoCall
    /\ ses_procs = None

\* Jam(config), and the list the jwt section of config names
GuardConstruct(list_config) ==
    LET config == [jwt |-> [alg |-> "HS256", secret |-> SecretK, list |-> list_config]]
    IN  /\ jam_inst = None
        /\ jam_inst' = Jam_init(config).value
        /\ jam_list' = BaseJWT_list_built(list_config).value
        /\ jam_call' = [op |-> "construct", config |-> config]
        /\ UNCHANGED <<clock, jwt_token, notGuard>>

\* jam.jwt_create_token(payload)
GuardCreateToken(payload) ==
    LET out == Jam_jwt_create_token(jam_inst, payload, 0)
    IN  /\ jam_inst # None
        /\ jwt_token = <<>>
        /\ out.ok
        /\ jwt_token' = out.value
        /\ jam_call' = [op |-> "create_token", payload |-> payload]
        /\ UNCHANGED <<jam_inst, jam_list, clock, notGuard>>

\* list.add(token)
GuardListAdd ==
    /\ jwt_token # <<>>
    /\ jam_list' = RedisList_add(jam_list, jwt_token, clock)
    /\ jam_call' = [op |-> "list_add", payload |-> jam_call.payload]
    /\ UNCHANGED <<jam_inst, clock, jwt_token, notGuard>>

\* list.delete(token)
GuardListDelete ==
    /\ jwt_token # <<>>
    /\ jam_list' = RedisList_delete(jam_list, jwt_token, clock)
    /\ jam_call' = [op |-> "list_delete", payload |-> jam_call.payload]
    /\ UNCHANGED <<jam_inst, clock, jwt_token, notGuard>>

\* a second passes
GuardTick ==
    /\ jam_inst # None
    /\ clock < MaxClock
    /\ clock' = clock + 1
    /\ UNCHANGED <<jam_inst, jam_list, jam_call, jwt_token, notGuard>>

\* jam.jwt_verify_token(token, check_exp, check_list); listed is what
\* list.check(token) returns at the time of the call
GuardVerify(check_exp, check_list) ==
    /\ jwt_token # <<>>
    /\ jam_call' = [op |-> "verify_token", payload |-> jam_call.payload,
                    check_exp |-> check_exp, check_list |-> check_list,
                    listed |-> RedisList_check(jam_list, jwt_token, clock),
                    out |-> Jam_jwt_verify_token_flags(jam_inst, jwt_token,
                                                       check_exp, check_list)]
    /\ UNCHANGED <<jam_inst, jam_list, clock, jwt_token, notGuard>>

GuardNext ==
    \/ \E list_config \in GuardListConfigs : GuardConstruct(list_config)
    \/ \E payload \in GuardPayloads : GuardCreateToken(payload)
    \/ GuardListAdd
    \/ GuardListDelete
    \/ GuardTick
    \/ \E check_exp, check_list \in BOOLEAN : GuardVerify(check_exp, check_list)

SpecGuard == GuardInit /\ [][GuardNext]_vars

(***************************************************************************)
(* Scenarios of a session store: one client creates sessions, reads,       *)
(* updates, deletes and reworks them and clears keys, while time passes.   *)
(* ses_log is the history of the calls: for each id a call returned, the   *)
(* key it was created under, the data of the last create or update that    *)
(* succeeded for it, the time of that write, and whether a delete, a clear *)
(* or a rework has since removed it.                                       *)
(***************************************************************************)
\* bound: the sessions a scenario creates
MaxSessions == 2

\* bound: the TTL of the stores of the expiry scenarios, in seconds
SesTTL == 2

\* bound: the clock of an expiry scenario runs from 0 to SesMaxClock seconds
SesMaxClock == 3

\* the stores: Redis without a TTL and with one of a second, and TinyDB,
\* each with and without encryption
SesInstances ==
    [backend : {"redis"}, ttl : {NoTime, 1}, crypt : BOOLEAN, ids : {0}]
        \cup [backend : {"json"}, ttl : {NoTime}, crypt : BOOLEAN, ids : {0}]

\* the session keys "u", "v" and "a:b"
SesKeys == {<<"u">>, <<"v">>, <<"a", Colon, "b">>}

SesData == {EmptyDict, PayloadSub}

\* ids no create returned: "u:z", and "J$_x", which has the mark of an
\* encoded id and is no Fernet token
SesStrangerIds == {<<"u", Colon, "z">>, <<SkMark, "x">>}

\* the ids a client holds: those the store returned, and the strangers
SesKnownIds == {e.id : e \in ses_log} \cup SesStrangerIds

LogHas(log, id) == \E e \in log : e.id = id
LogEntry(log, id) == CHOOSE e \in log : e.id = id
LogLive(log, id) == LogHas(log, id) /\ LogEntry(log, id).live

LogWritten(log, id, key, data, now) ==
    {e \in log : e.id # id}
        \cup {[id |-> id, key |-> key, data |-> data, at |-> now, live |-> TRUE]}

LogRemoved(log, ids) ==
    {IF e.id \in ids THEN [e EXCEPT !.live = FALSE] ELSE e : e \in log}

\* the TTL of the store has elapsed since the last write of the entry
LogExpired(inst, e, now) == HasTTL(inst) /\ now >= e.at + inst.ttl

SesInit ==
    /\ ses_inst \in SesInstances
    /\ ses_db = {}
    /\ ses_log = {}
    /\ ses_call = NoCall
    /\ ses_procs = None
    /\ clock = 0
    /\ jam_inst = None
    /\ jam_call = NoCall
    /\ jam_list = None
    /\ jwt_token = <<>>
    /\ jwt_made = None
    /\ jwt_call = NoCall
    /\ pas_token = <<>>
    /\ pas_made = None
    /\ pas_call = NoCall
    /\ pae_in = None
    /\ pae_out = None
    /\ sh_inst = None
    /\ sh_procs = None

\* a call ends: the store is left as the method left it
SesDone(r, call, log) ==
    /\ ses_inst' = r.inst
    /\ ses_db' = r.db
    /\ ses_call' = call
    /\ ses_log' = log
    /\ UNCHANGED <<clock, ses_procs, notSessions>>

\* create(session_key, data)
SesCreate(session_key, data) ==
    LET r == Sessions_create(ses_inst, ses_db, clock, session_key, data)
    IN  /\ ses_inst.ids < MaxSessions
        /\ SesDone(r, [op |-> "create", session_key |-> session_key, data |-> data,
                       out |-> r.out],
                   LogWritten(ses_log, r.out.value, session_key, data, clock))

\* get(session_id)
SesGet(session_id) ==
    LET r == Sessions_get(ses_inst, ses_db, clock, session_id)
    IN  SesDone(r, [op |-> "get", session_id |-> session_id, out |-> r.out], ses_log)

\* delete(session_id)
SesDelete(session_id) ==
    LET r == Sessions_delete(ses_inst, ses_db, clock, session_id)
    IN  SesDone(r, [op |-> "delete", session_id |-> session_id, out |-> r.out],
                IF r.out.ok THEN LogRemoved(ses_log, {session_id}) ELSE ses_log)

\* update(session_id, data); the earlier Redis store writes the session
\* whether or not it finds one; age is the seconds since the last write
SesUpdate(session_id, data) ==
    LET r == Sessions_update(ses_inst, ses_db, clock, session_id, data)
        e == LogEntry(ses_log, session_id)
        key == IF LogHas(ses_log, session_id) THEN e.key ELSE SplitColonHead(session_id)
    IN  SesDone(r, [op |-> "update", session_id |-> session_id, data |-> data,
                    out |-> r.out,
                    age |-> IF LogHas(ses_log, session_id) THEN clock - e.at ELSE 0],
                IF r.out.ok /\ (\/ ses_inst.backend = "legacy"
                                \/ /\ LogLive(ses_log, session_id)
                                   /\ ~LogExpired(ses_inst, e, clock))
                THEN LogWritten(ses_log, session_id, key, data, clock)
                ELSE ses_log)

\* clear(session_key); removed is the ids of the sessions of the key that
\* were in the store until this call
SesClear(session_key) ==
    LET r == Sessions_clear(ses_inst, ses_db, clock, session_key)
    IN  SesDone(r, [op |-> "clear", session_key |-> session_key, out |-> r.out,
                    removed |-> {e.id : e \in {x \in ses_log :
                                                x.live /\ x.key = session_key}}],
                LogRemoved(ses_log, {e.id : e \in {x \in ses_log : x.key = session_key}}))

\* rework(session_id)
SesRework(session_id) ==
    LET r == Sessions_rework(ses_inst, ses_db, clock, session_id)
        e == LogEntry(ses_log, session_id)
    IN  /\ ses_inst.ids < MaxSessions
        /\ SesDone(r, [op |-> "rework", session_id |-> session_id, out |-> r.out],
                   IF r.out.ok /\ LogHas(ses_log, session_id)
                   THEN LogWritten(LogRemoved(ses_log, {session_id}), r.out.value,
                                   e.key, e.data, clock)
                   ELSE ses_log)

\* a second passes
SesTick ==
    /\ clock < MaxClock
    /\ clock' = clock + 1
    /\ ses_db' = Sessions_expire(ses_inst, ses_db, clock + 1)
    /\ ses_call' = [op |-> "tick"]
    /\ UNCHANGED <<ses_inst, ses_log, ses_procs, notSessions>>

SesNext ==
    \/ \E session_key \in SesKeys, data \in SesData : SesCreate(session_key, data)
    \/ \E session_id \in SesKnownIds : SesGet(session_id)
    \/ \E session_id \in SesKnownIds : SesDelete(session_id)
    \/ \E session_id \in SesKnownIds, data \in SesData : SesUpdate(session_id, data)
    \/ \E session_key \in SesKeys : SesClear(session_key)
    \/ \E session_id \in SesKnownIds : SesRework(session_id)
    \/ SesTick

SpecSessions == SesInit /\ [][SesNext]_vars

(***************************************************************************)
(* Scenarios of expiry: a store with a TTL of SesTTL seconds, the Redis    *)
(* store with and without encryption or the earlier Redis store, holds     *)
(* sessions of the key "u" that a client creates, reads, updates, deletes  *)
(* and reworks while the clock runs to SesMaxClock.                        *)
(***************************************************************************)
TTLInstances ==
    [backend : {"redis"}, ttl : {SesTTL}, crypt : BOOLEAN, ids : {0}]
        \cup [backend : {"legacy"}, ttl : {SesTTL}, crypt : {FALSE}, ids : {0}]

TTLInit ==
    /\ ses_inst \in TTLInstances
    /\ ses_db = {}
    /\ ses_log = {}
    /\ ses_call = NoCall
    /\ ses_procs = None
    /\ clock = 0
    /\ jam_inst = None
    /\ jam_call = NoCall
    /\ jam_list = None
    /\ jwt_token = <<>>
    /\ jwt_made = None
    /\ jwt_call = NoCall
    /\ pas_token = <<>>
    /\ pas_made = None
    /\ pas_call = NoCall
    /\ pae_in = None
    /\ pae_out = None
    /\ sh_inst = None
    /\ sh_procs = None

\* a second passes
TTLTick ==
    /\ clock < SesMaxClock
    /\ clock' = clock + 1
    /\ ses_db' = Sessions_expire(ses_inst, ses_db, clock + 1)
    /\ ses_call' = [op |-> "tick"]
    /\ UNCHANGED <<ses_inst, ses_log, ses_procs, notSessions>>

TTLNext ==
    \/ \E data \in SesData : SesCreate(<<"u">>, data)
    \/ \E session_id \in {e.id : e \in ses_log} : SesGet(session_id)
    \/ \E session_id \in {e.id : e \in ses_log} : SesDelete(session_id)
    \/ \E session_id \in {e.id : e \in ses_log}, data \in SesData :
          SesUpdate(session_id, data)
    \/ \E session_id \in {e.id : e \in ses_log} : SesRework(session_id)
    \/ TTLTick

SpecSessionTTL == TTLInit /\ [][TTLNext]_vars

(***************************************************************************)
(* Scenarios of a rework beside another client's call.  A Redis store      *)
(* holds one session of the key "u"; one client calls rework on it while   *)
(* another calls delete or update on it.  Redis runs one command at a      *)
(* time, so a step is one command of one call: rework is the HGET of its   *)
(* get, the HSET and the HEXPIRE of its create and the HDEL of its delete; *)
(* update is the HGET of its get, its HSET and its HEXPIRE; delete is its  *)
(* HDEL.  ses_log keeps the store the two calls started from.              *)
(***************************************************************************)
RwInstances == [backend : {"redis"}, ttl : {NoTime, SesTTL}, crypt : BOOLEAN, ids : {0}]

\* the data of the session, and the data the other client updates it to
RwData == {PayloadSub}
RwUpdates == {PayloadUser, EmptyDict}

\* the calls of the other client
RwOthers == {[op |-> "delete", data |-> None]}
                \cup {[op |-> "update", data |-> d] : d \in RwUpdates}

\* the store after create("u", data) on an empty database
RwStarted(inst, data) == RedisSessions_create(inst, {}, 0, <<"u">>, data)

RwInit ==
    /\ \E inst \in RwInstances, data \in RwData, other \in RwOthers :
          /\ ses_inst = RwStarted(inst, data).inst
          /\ ses_db = RwStarted(inst, data).db
          /\ ses_log = [inst |-> RwStarted(inst, data).inst,
                        db |-> RwStarted(inst, data).db,
                        session_id |-> RwStarted(inst, data).out.value,
                        other |-> other]
          /\ ses_procs = [rework |-> [pc |-> "start", data |-> None,
                                      new_session_id |-> <<>>, out |-> None],
                          other |-> [pc |-> "start", out |-> None]]
    /\ ses_call = NoCall
    /\ clock = 0
    /\ jam_inst = None
    /\ jam_call = NoCall
    /\ jam_list = None
    /\ jwt_token = <<>>
    /\ jwt_made = None
    /\ jwt_call = NoCall
    /\ pas_token = <<>>
    /\ pas_made = None
    /\ pas_call = NoCall
    /\ pae_in = None
    /\ pae_out = None
    /\ sh_inst = None
    /\ sh_procs = None

\* the key of the session: the decoded id up to its first colon
RwKey ==
    SplitColonHead(decode_session_id_if_needed(ses_inst, ses_log.session_id).value)

\* a command of a call has run
RwStep(who, proc, inst, db) ==
    /\ ses_procs' = [ses_procs EXCEPT ![who] = proc]
    /\ ses_inst' = inst
    /\ ses_db' = db
    /\ UNCHANGED <<ses_log, ses_call, clock, notSessions>>

\* rework: session_data = self.get(session_id), and the test of it
RwReworkGet ==
    LET got == RedisSessions_get(ses_inst, ses_db, clock, ses_log.session_id).out
    IN  /\ ses_procs.rework.pc = "start"
        /\ RwStep("rework",
                  IF Truthy(got.value)
                  THEN [ses_procs.rework EXCEPT !.pc = "got", !.data = got.value]
                  ELSE [ses_procs.rework EXCEPT !.pc = "done", !.out = SessionNotFound],
                  ses_inst, ses_db)

\* rework: the HSET of self.create(decoded_session_key[0], session_data)
RwReworkHset ==
    LET set == RedisSessions_create_hset(ses_inst, ses_db, clock, RwKey,
                                         ses_procs.rework.data)
    IN  /\ ses_procs.rework.pc = "got"
        /\ RwStep("rework",
                  [ses_procs.rework EXCEPT
                      !.pc = IF HasTTL(ses_inst) THEN "set" ELSE "made",
                      !.new_session_id = set.session_id],
                  set.inst, set.db)

\* rework: the HEXPIRE of self.create
RwReworkHexpire ==
    /\ ses_procs.rework.pc = "set"
    /\ RwStep("rework", [ses_procs.rework EXCEPT !.pc = "made"], ses_inst,
              RedisSessions_hexpire(ses_inst, ses_db, clock, RwKey,
                                    ses_procs.rework.new_session_id))

\* rework: self.delete(session_id), and the return of the new id
RwReworkDelete ==
    /\ ses_procs.rework.pc = "made"
    /\ RwStep("rework",
              [ses_procs.rework EXCEPT
                  !.pc = "done", !.out = Return(ses_procs.rework.new_session_id, <<>>)],
              ses_inst,
              RedisSessions_rework_delete(ses_inst, ses_db, clock, ses_log.session_id).db)

\* the other client's delete(session_id)
RwOtherDelete ==
    /\ ses_log.other.op = "delete"
    /\ ses_procs.other.pc = "start"
    /\ RwStep("other", [pc |-> "done", out |-> Return(None, <<>>)], ses_inst,
              RedisSessions_delete(ses_inst, ses_db, clock, ses_log.session_id).db)

\* the other client's update: if not self.get(session_id)
RwOtherGet ==
    LET got == RedisSessions_get(ses_inst, ses_db, clock, ses_log.session_id).out
    IN  /\ ses_log.other.op = "update"
        /\ ses_procs.other.pc = "start"
        /\ RwStep("other",
                  IF RedisSessions_update_found(got)
                  THEN [pc |-> "got", out |-> None]
                  ELSE [pc |-> "done", out |-> SessionNotFound],
                  ses_inst, ses_db)

\* the other client's update: its HSET
RwOtherHset ==
    /\ ses_procs.other.pc = "got"
    /\ RwStep("other",
              IF HasTTL(ses_inst) THEN [pc |-> "set", out |-> None]
              ELSE [pc |-> "done", out |-> Return(None, <<>>)],
              ses_inst,
              RedisSessions_update_hset(ses_inst, ses_db, clock, RwKey,
                                        ses_log.session_id, ses_log.other.data))

\* the other client's update: its HEXPIRE
RwOtherHexpire ==
    /\ ses_procs.other.pc = "set"
    /\ RwStep("other", [pc |-> "done", out |-> Return(None, <<>>)], ses_inst,
              RedisSessions_update_hexpire(ses_inst, ses_db, clock, RwKey,
                                           ses_log.session_id))

RwNext ==
    \/ RwReworkGet
    \/ RwReworkHset
    \/ RwReworkHexpire
    \/ RwReworkDelete
    \/ RwOtherDelete
    \/ RwOtherGet
    \/ RwOtherHset
    \/ RwOtherHexpire

SpecRework == RwInit /\ [][RwNext]_vars

(***************************************************************************)
(* Properties of the JWT codec.                                            *)
(***************************************************************************)
\* C1: for every algorithm and payload, decode(encode(p)) on the same codec,
\* without a public_key argument, returns a mapping equal to p
C1_RoundTrip ==
    (/\ JWTDecoded
     /\ ~jwt_made.flipped
     /\ jwt_call.codec = jwt_made.codec
     /\ jwt_call.pk = None)
        => (jwt_call.out.ok /\ jwt_call.out.value = jwt_made.payload)

\* C1, the failing case reached: an RS256 codec holding a private key as PEM
\* text raises on the token it has just encoded
C1_RoundTripFails ==
    /\ JWTDecoded
    /\ ~jwt_made.flipped
    /\ jwt_made.codec = JWT_init("RS256", Str(PemOf(RSAKey1)))
    /\ jwt_made.payload = PayloadUser
    /\ jwt_call.codec = jwt_made.codec
    /\ jwt_call.pk = None
    /\ ~jwt_call.out.ok

\* C2: decode raises the algorithm-mismatch validation error for every token
\* whose header alg differs from the algorithm of the decoding codec
C2_AlgMismatchRejected ==
    (JWTDecoded /\ jwt_made.codec.alg # jwt_call.codec.alg)
        => (/\ ~jwt_call.out.ok
            /\ jwt_call.out.err = <<"ValueError", "Algorithm mismatch">>)

\* C2, the case reached: an HS256 token decoded by an HS384 codec holding
\* the same secret is rejected
C2_HS256UnderHS384 ==
    /\ JWTDecoded
    /\ jwt_made.codec = JWT_init("HS256", SecretK)
    /\ jwt_call.codec = JWT_init("HS384", SecretK)
    /\ jwt_call.out.err = <<"ValueError", "Algorithm mismatch">>

C5_FlippedBitRejected ==
    (JWTDecoded /\ jwt_made.flipped) => ~jwt_call.out.ok

\* C5, the failing case reached: the codec that made an HS256 token returns
\* the payload of the token whose last signature character has a bit flipped
C5_FlippedBitAccepted ==
    /\ JWTDecoded
    /\ jwt_made.flipped
    /\ jwt_made.codec = JWT_init("HS256", SecretK)
    /\ jwt_call.codec = jwt_made.codec
    /\ jwt_token # jwt_made.token
    /\ jwt_call.out.ok
    /\ jwt_call.out.value = jwt_made.payload

\* C14: decode(token, public_key=K) verifies the signature with K whenever
\* K is supplied, for every algorithm family: it returns the payload exactly
\* when K is the key the token was signed with; the codec's secret decides
\* only when no public_key is supplied
C14_SuppliedKeyVerifies ==
    (JWTDecoded /\ ~jwt_made.flipped /\ jwt_call.codec.alg = jwt_made.codec.alg)
        => /\ jwt_call.pk # None =>
                (jwt_call.out.ok <=>
                    JWTKeyIdentity(jwt_call.pk) = JWTKeyIdentity(jwt_made.codec.secret))
           /\ (jwt_call.pk = None /\ jwt_call.out.ok) =>
                JWTKeyIdentity(jwt_call.codec.secret)
                    = JWTKeyIdentity(jwt_made.codec.secret)

\* C14, the failing case reached: the HS256 codec holding the secret "k"
\* accepts its own token although decode was given public_key="wrong"
C14_HMACIgnoresPublicKey ==
    /\ JWTDecoded
    /\ ~jwt_made.flipped
    /\ jwt_made.codec = JWT_init("HS256", SecretK)
    /\ jwt_call.codec = jwt_made.codec
    /\ jwt_call.pk = SecretWrong
    /\ jwt_call.out.ok

\* a configuration with an unsupported algorithm identifier, or with a
\* "jwt" section that lacks the secret
JamConfigError(config) ==
    config.jwt # None
        /\ (config.jwt.alg \notin Algs \/ config.jwt.secret = None)

\* what a first use raises because of the configuration
JamConfigFailures ==
    {<<"ValueError", "Unsupported algorithm">>,
     <<"ValueError", "Unsupported ECDSA algorithm">>,
     <<"AttributeError", "'NoneType' object has no attribute 'encode'">>,
     <<"AttributeError", "'NoneType' object has no attribute 'decode'">>}

\* C15: a configuration error (an unsupported algorithm identifier, a
\* module whose configuration lacks the key material) is raised when the
\* codec or the Jam instance is constructed, and never by the first encode
\* or decode
C15_ConfigErrorAtConstruction ==
    /\ (jam_call.op = "construct" /\ JamConfigError(jam_call.config))
            => ~jam_call.out.ok
    /\ jam_call.op \in {"create_token", "verify_token"}
            => jam_call.out.err \notin JamConfigFailures

\* C15, the failing case reached: JWT("none", "k") was constructed without
\* an error and its first encode raised "Unsupported algorithm"
C15_UnsupportedAlgDeferred ==
    /\ jam_call.op = "create_token"
    /\ jam_inst = [jwt |-> JWT_init("none", SecretK), logged |-> <<>>]
    /\ jam_call.out.err = <<"ValueError", "Unsupported algorithm">>

OpsAt(ops, name) == {i \in 1..Len(ops) : ops[i] = name}

\* the signature of the last call has not the length 2*n of the key the
\* call verifies with
ESWrongLength ==
    LET loaded == JWT_verify_key(jwt_call.codec, jwt_call.pk)
    IN  /\ jwt_call.op = "decode_resized"
        /\ loaded.ok
        /\ loaded.value.t = "ECPublicKey"
        /\ Len(jwt_call.signature) # 2 * CurveBytes(loaded.value)

PasDecoded == pas_call.op = "decode"

\* the version and purpose of the token in flight differ from the decoder's
PasMismatch ==
    \/ pas_made.codec.version # pas_call.codec.version
    \/ pas_made.codec.purpose # pas_call.codec.purpose

\* C4: a decode of a token whose algorithm (JWT) or version and purpose
\* (PASETO) differ from the codec's raises before any key derivation, MAC,
\* signature verification or decryption is invoked
C4_MismatchRejectedFirst ==
    /\ (JWTDecoded /\ jwt_made.codec.alg # jwt_call.codec.alg)
            => (~jwt_call.out.ok /\ jwt_call.out.ops = <<>>)
    /\ (PasDecoded /\ PasMismatch)
            => (~pas_call.out.ok /\ pas_call.out.ops = <<>>)

\* C4, the failing case reached: a v1 public codec handed a v1.local token
\* gets as far as the key derivation
C4_PublicCodecDerivesKey ==
    /\ PasDecoded
    /\ pas_made.codec.version = "v1"
    /\ pas_made.codec.purpose = "local"
    /\ pas_call.codec = PASETO_key("v1", "public", Str(PemOf(PasRSAKey1))).value
    /\ pas_call.out.ops = <<"HKDF.derive">>

\* the one authentication failure of a local decode of a version
PasAuthFailure(version) ==
    IF version = "v1"
    THEN <<"JamPASETOInvalidTokenFormat", "Invalid authentication tag">>
    ELSE <<"ValueError", "Invalid authentication or corrupt ciphertext">>

\* the local codec decoding the local token in flight, of its version
PasLocalDecoded ==
    /\ PasDecoded
    /\ pas_made.codec.purpose = "local"
    /\ pas_call.codec.purpose = "local"
    /\ pas_call.codec.version = pas_made.codec.version

\* C6: a local token with a changed ciphertext or tag byte, or decoded under
\* another key, makes decode raise the one authentication failure of its
\* version, and no plaintext is returned
C6_UniformAuthFailure ==
    (PasLocalDecoded
     /\ (pas_made.changed \/ pas_call.codec.secret # pas_made.codec.secret))
        => (/\ ~pas_call.out.ok
            /\ pas_call.out.value = None
            /\ pas_call.out.err = PasAuthFailure(pas_made.codec.version))

\* C6, the case reached: the v1 codec that made a token refuses it once a
\* ciphertext byte was changed
C6_ChangedCiphertextRefused ==
    /\ PasLocalDecoded
    /\ pas_made.changed
    /\ pas_call.codec = pas_made.codec
    /\ pas_made.codec.version = "v1"
    /\ LastN(PasBody(pas_token), 48) = LastN(PasBody(pas_made.token), 48)
    /\ pas_call.out.err = PasAuthFailure("v1")

\* a codec that holds what encode needs: a secret or a private key
PasCanEncode(c) == c.secret # None

\* C7: for every (version, purpose) and payload, encode on a codec built by
\* key() from a secret or a private key returns a token, and decode of that
\* token on the same codec returns the payload
C7_RoundTrip ==
    /\ (pas_call.op = "encode" /\ PasCanEncode(pas_call.codec)) => pas_call.out.ok
    /\ (PasDecoded /\ ~pas_made.changed /\ pas_call.codec = pas_made.codec)
            => (pas_call.out.ok /\ pas_call.out.value[1] = pas_made.payload)

\* C7, the failing case reached: encode on the v2 public codec built from a
\* private key raises NotImplementedError
C7_V2PublicEncodeFails ==
    /\ pas_call.op = "encode"
    /\ pas_call.codec = PASETO_key("v2", "public", Str(PemOf(EdKey1))).value
    /\ pas_call.out.err = <<"NotImplementedError", "">>

\* the length of a local key, after base64url decoding when it is a string
PasKeyLength(key) ==
    IF key.t = "str" THEN Len(base64url_decode(key.v).value) ELSE Len(key.v)

\* C8: key('local', k) raises for every k that is not 32 bytes long, and a
\* local codec it returns holds a 32-byte secret
C8_LocalKeyLength ==
    (pas_call.op = "key" /\ pas_call.purpose = "local")
        => (/\ PasKeyLength(pas_call.key) # 32 => ~pas_call.out.ok
            /\ pas_call.out.ok => Len(pas_call.out.value.secret.v) = 32)

\* C8, the failing case reached: PASETOv1.key('local', <31 bytes>) returns a
\* codec
C8_V1ShortKeyAccepted ==
    /\ pas_call.op = "key"
    /\ pas_call.version = "v1"
    /\ pas_call.purpose = "local"
    /\ pas_call.key = Bytes(Key31)
    /\ pas_call.out.ok
    /\ Len(pas_call.out.value.secret.v) = 31

\* key material that is a public key alone
PasPublicOnly(key) ==
    \/ key.t \in PublicTypes
    \/ key.t = "str" /\ load_pem_public_key(key.v).ok
    \/ key.t = "bytes" /\ from_public_bytes(key.v).ok

\* the errors that say a codec cannot do what was asked of it
CapabilityErrors == {"TypeError", "NotImplementedError", "JamPASTOKeyVerificationError"}

\* C9: key('public', K) with a public key K alone returns a codec; it decodes
\* the tokens of the codec built from the matching private key; encode on it
\* raises a type or capability error
C9_PublicOnlyCodec ==
    /\ (pas_call.op = "key" /\ pas_call.purpose = "public"
        /\ PasPublicOnly(pas_call.key))
            => (pas_call.out.ok /\ pas_call.out.value.secret = None)
    /\ (PasDecoded /\ ~pas_made.changed
        /\ pas_made.codec.purpose = "public"
        /\ pas_call.codec.purpose = "public"
        /\ pas_call.codec.version = pas_made.codec.version
        /\ pas_call.codec.secret = None
        /\ pas_call.codec.public_key = public_key_of(pas_made.codec.secret))
            => (pas_call.out.ok /\ pas_call.out.value[1] = pas_made.payload)
    /\ (pas_call.op = "encode" /\ pas_call.codec.purpose = "public"
        /\ pas_call.codec.secret = None)
            => (~pas_call.out.ok /\ pas_call.out.err[1] \in CapabilityErrors)

\* C9, the failing case reached: PASETOv2.key('public', <PEM text of an
\* Ed25519 public key>) raises
C9_V2PublicPemRefused ==
    /\ pas_call.op = "key"
    /\ pas_call.version = "v2"
    /\ pas_call.purpose = "public"
    /\ pas_call.key = Str(PemOf(public_key_of(EdKey1)))
    /\ ~pas_call.out.ok

\* the positions of an operation in the operations a call invoked

\* C10: a v1.local decode decrypts only after the tag comparison, and when
\* the token's tag differs from the recomputed one (a byte was changed, or
\* the key is another one) it decrypts nothing
C10_VerifyThenDecrypt ==
    (PasLocalDecoded /\ pas_made.codec.version = "v1")
        => LET ops == pas_call.out.ops
           IN  /\ \A j \in OpsAt(ops, "_decrypt") :
                        \E i \in OpsAt(ops, "compare_digest") : i < j
               /\ (pas_made.changed \/ pas_call.codec.secret # pas_made.codec.secret)
                        => OpsAt(ops, "_decrypt") = {}

\* C10, the case reached: a v1.local token whose tag has a changed byte is
\* compared and refused, and nothing is decrypted
C10_TagDiffersNoDecrypt ==
    /\ PasLocalDecoded
    /\ pas_made.codec.version = "v1"
    /\ pas_made.changed
    /\ LastN(PasBody(pas_token), 48) # LastN(PasBody(pas_made.token), 48)
    /\ pas_call.out.ops = <<"HKDF.derive", "HKDF.derive", "hmac.new", "compare_digest">>

(***************************************************************************)
(* Properties of the pre-authentication encoding.                          *)
(***************************************************************************)
\* the 8 bytes b are the little-endian 64-bit integer n (n < 2^31), the top
\* bit of the most significant byte 0
IsLE64(b, n) ==
    /\ Len(b) = 8
    /\ b[1] = n % 256
    /\ b[2] = (n \div 256) % 256
    /\ b[3] = (n \div 65536) % 256
    /\ b[4] = (n \div 16777216) % 256
    /\ \A i \in 5..8 : b[i] = 0
    /\ b[8] < 128

RECURSIVE PaeOffset(_, _)
\* where the length of piece k starts in the encoding, 0-based
PaeOffset(pieces, k) ==
    IF k = 1 THEN 8 ELSE PaeOffset(pieces, k - 1) + 8 + Len(pieces[k - 1])

\* enc is laid out as: count, then for each piece its length and its bytes
PaeLayout(pieces, enc) ==
    /\ Len(enc) = PaeOffset(pieces, Len(pieces) + 1)
    /\ IsLE64(SubSeq(enc, 1, 8), Len(pieces))
    /\ \A k \in 1..Len(pieces) :
            LET at == PaeOffset(pieces, k)
            IN  /\ IsLE64(SubSeq(enc, at + 1, at + 8), Len(pieces[k]))
                /\ SubSeq(enc, at + 9, at + 8 + Len(pieces[k])) = pieces[k]

\* C11: pae(pieces) is the 8-byte little-endian count of pieces, then for
\* each piece in order its 8-byte little-endian length and its raw bytes,
\* the top bit of every 8-byte integer 0.
C11_PaeLayout ==
    pae_out # None =>
        /\ PaeLayout(pae_in.a, pae_out.a)
        /\ PaeLayout(pae_in.b, pae_out.b)

\* C11 happens: PAE([]) came out as 8 zero bytes and PAE([b""]) as 16 bytes,
\* count 1 then length 0
C11_EmptyListAndEmptyPiece ==
    /\ pae_out # None
    /\ pae_in.a = <<>>
    /\ pae_out.a = <<0, 0, 0, 0, 0, 0, 0, 0>>
    /\ pae_in.b = << <<>> >>
    /\ pae_out.b = <<1, 0, 0, 0, 0, 0, 0, 0, 0, 0, 0, 0, 0, 0, 0, 0>>

\* C12: two different lists of pieces never have the same encoding.
C12_PaeInjective ==
    (pae_out # None /\ pae_in.a # pae_in.b) => pae_out.a # pae_out.b

\* C12 happens: PAE([b"ab", b"cd"]) and PAE([b"a", b"bcd"]) were computed
\* and differ
C12_SameBytesSplitTwoWays ==
    /\ pae_out # None
    /\ pae_in.a = << <<97, 98>>, <<99, 100>> >>
    /\ pae_in.b = << <<97>>, <<98, 99, 100>> >>
    /\ pae_out.a # pae_out.b
(***************************************************************************)
(* Properties of the PASETO footer.                                        *)
(***************************************************************************)
\* C13: for every payload p and footer f that encode accepted (a mapping, a
\* string, or None for absent), decode of the token on the same codec
\* returns the pair (p, f).
C13_FooterRoundTrip ==
    (PasDecoded /\ ~pas_made.changed /\ pas_call.codec = pas_made.codec)
        => (pas_call.out.ok
            /\ pas_call.out.value = <<pas_made.payload, pas_made.footer>>)

\* C13, the failing case reached: a token encoded with the footer {} decodes
\* to the payload and the footer None
C13_EmptyFooterLost ==
    /\ PasDecoded
    /\ ~pas_made.changed
    /\ pas_call.codec = pas_made.codec
    /\ pas_made.footer = EmptyDict
    /\ pas_call.out.ok
    /\ pas_call.out.value = <<pas_made.payload, None>>
(***************************************************************************)
(* Properties of the segments of a token.                                  *)
(***************************************************************************)
SegCount(token) == Len(SplitDots(token))

SegHasEmpty(token) == \E i \in 1..SegCount(token) : SplitDots(token)[i] = <<>>

\* the exception classes of the format failures of decode
FormatErrorClasses == {"ValueError", "JamPASETOInvalidTokenFormat"}

\* C16: decode rejects with a format error every token that does not split
\* on "." into the expected number of segments: exactly 3 non-empty
\* segments for a JWT, exactly 3 or 4 segments for a PASETO.
C16_SegmentCountEnforced ==
    /\ (jwt_call.op = "decode_segments"
        /\ (SegCount(jwt_call.token) # 3 \/ SegHasEmpty(jwt_call.token)))
            => (~jwt_call.out.ok /\ jwt_call.out.err[1] \in FormatErrorClasses)
    /\ (pas_call.op = "decode_segments" /\ SegCount(pas_call.token) \notin {3, 4})
            => (~pas_call.out.ok /\ pas_call.out.err[1] \in FormatErrorClasses)

\* C16, the failing case reached: a v1.local token with a footer and a
\* fifth segment added is decoded to its payload and footer
C16_FiveSegmentsAccepted ==
    /\ pas_call.op = "decode_segments"
    /\ pas_made.codec.version = "v1"
    /\ pas_made.codec.purpose = "local"
    /\ pas_made.footer = FooterKid
    /\ SegCount(pas_call.token) = 5
    /\ pas_call.out.ok
    /\ pas_call.out.value = <<pas_made.payload, FooterKid>>
(***************************************************************************)
(* Properties of a refused token.                                          *)
(***************************************************************************)
VerificationOps == {"compare_digest", "verify", "xchacha20poly1305_decrypt"}

\* the call got as far as the signature, MAC or AEAD check and failed there
VerMismatch(out) ==
    /\ ~out.ok
    /\ out.ops # <<>>
    /\ out.ops[Len(out.ops)] \in VerificationOps

PasV1PublicDecoded ==
    /\ PasDecoded
    /\ ~pas_made.changed
    /\ pas_made.codec.version = "v1"
    /\ pas_made.codec.purpose = "public"
    /\ pas_call.codec.version = "v1"
    /\ pas_call.codec.purpose = "public"
    /\ pas_call.codec.public_key # None

\* the errors of _decode_public about the size of the body
PasBodySizeErrors ==
    {<<"JamPASETOInvalidTokenFormat", "Invalid token body,">>,
     <<"JamPASETOInvalidTokenFormat", "Invalid payload/signature size">>}

\* C19: v1.public decode takes the last key_size_bytes of the body as the
\* signature, and the only size it requires of the body is the modulus size
\* of the RSA key: a body is refused for its size exactly when it is shorter
\* than key_size_bytes, and a body of the codec's own token is split into
\* the payload and the signature that verify.
C19_OnlyKeySizeRequired ==
    PasV1PublicDecoded =>
        LET key_size == pas_call.codec.public_key.v[2] \div 8
        IN  /\ pas_call.out.err \in PasBodySizeErrors
                    <=> Len(PasBody(pas_token)) < key_size
            /\ pas_call.codec.public_key = pas_made.codec.public_key
                    => (pas_call.out.ok /\ pas_call.out.value[1] = pas_made.payload)

\* C19, the failing case reached: the codec of a 1024-bit key refuses its
\* own token, whose body is longer than the 128 bytes of the key, as
\* "Invalid token body,"
C19_SmallKeyTokenRefused ==
    /\ PasV1PublicDecoded
    /\ pas_made.codec = PASETO_key("v1", "public", Str(PemOf(PasRSAKey2))).value
    /\ pas_call.codec = pas_made.codec
    /\ Len(PasBody(pas_token)) >= 128
    /\ pas_call.out.err = <<"JamPASETOInvalidTokenFormat", "Invalid token body,">>

\* C20: PASETOv1.key("public", k) with k an RSA private key object returns
\* a codec whose signing key is k and whose public key is k.public_key(),
\* a codec that can encode and decode.
C20_KeyObjectAccepted ==
    (/\ pas_call.op = "key"
     /\ pas_call.version = "v1"
     /\ pas_call.purpose = "public"
     /\ pas_call.key.t = "RSAPrivateKey")
        => /\ pas_call.out.ok
           /\ pas_call.out.value
                = PasCodec("v1", "public", pas_call.key, public_key_of(pas_call.key))

\* C20, the failing case reached: key("public", k) with the private key
\* object k raises TypeError and returns no codec
C20_KeyObjectRaises ==
    /\ pas_call.op = "key"
    /\ pas_call.version = "v1"
    /\ pas_call.purpose = "public"
    /\ pas_call.key = PasRSAKey1
    /\ ~pas_call.out.ok
    /\ pas_call.out.err[1] = "TypeError"

JWTEncoded == jwt_call.op = "encode" /\ jwt_call.out.ok /\ ~jwt_made.flipped

\* the header segment of a token, decoded and parsed
JWTHeaderOfToken(token) ==
    JsonEncoder_loads(jwt_base64url_decode(SplitDots(token)[1]).value)

\* a token is three segments, each of them base64url text
JWTThreeSegments(token) ==
    /\ SegCount(token) = 3
    /\ \A i \in 1..3 : jwt_base64url_decode(SplitDots(token)[i]).ok

\* C22: the token an encode returns is three base64url segments, and its
\* header decodes to the mapping of typ "JWT" and alg the codec's algorithm
C22_HeaderTypJWT ==
    JWTEncoded =>
        /\ JWTThreeSegments(jwt_token)
        /\ JWTHeaderOfToken(jwt_token).ok
        /\ JWTHeaderOfToken(jwt_token).value
                = [alg |-> <<"str", jwt_call.codec.alg>>, typ |-> <<"str", "JWT">>]

\* C22, the failing case reached: an HS256 encode returned a token whose
\* header carries typ "jwt"
C22_HeaderTypLowercase ==
    /\ JWTEncoded
    /\ jwt_call.codec.alg = "HS256"
    /\ JWTThreeSegments(jwt_token)
    /\ JWTHeaderOfToken(jwt_token).value
            = [alg |-> <<"str", "HS256">>, typ |-> <<"str", "jwt">>]

(***************************************************************************)
(* Properties of a guarded verification.                                   *)
(***************************************************************************)
GuardVerified == jam_call.op = "verify_token"

\* the class of the exception a call raised, "" when it returned
ErrClass(out) == IF out.ok THEN "" ELSE out.err[1]

\* C23: a verification with check_list refuses a token that is in a black
\* list with the token-in-black-list error and a token that is not in a
\* white list with the token-not-in-white-list error, and returns the
\* payload of a token that passes the list check and the signature check
C23_ListChecked ==
    (GuardVerified /\ jam_call.check_list) =>
        /\ (jam_list.type = "black" /\ jam_call.listed)
                => ErrClass(jam_call.out) = "JamJWTInBlackList"
        /\ (jam_list.type = "white" /\ ~jam_call.listed)
                => ErrClass(jam_call.out) = "JamJWTNotInWhiteList"
        /\ ((jam_list.type = "black") = ~jam_call.listed)
                => (jam_call.out.ok /\ jam_call.out.value = jam_call.payload)

\* C23, the failing case reached: a token that was added to the black list
\* is verified with check_list and its payload is returned
C23_BlackListedTokenAccepted ==
    /\ GuardVerified
    /\ jam_call.check_list
    /\ jam_list.type = "black"
    /\ jam_call.listed
    /\ jam_call.out.ok
    /\ jam_call.out.value = jam_call.payload

\* C24: a verification with check_exp of a token whose exp is earlier than
\* the current time raises the token-expired error and returns no payload
C24_ExpiredRefused ==
    (/\ GuardVerified
     /\ jam_call.check_exp
     /\ "exp" \in DOMAIN jam_call.payload
     /\ jam_call.payload.exp[2] < clock)
        => (~jam_call.out.ok /\ ErrClass(jam_call.out) = "JamJWTExpired")

\* C24, the failing case reached: at time 2 a token of exp 1 is verified
\* with check_exp and its payload is returned
C24_ExpiredTokenAccepted ==
    /\ GuardVerified
    /\ jam_call.check_exp
    /\ jam_call.payload = PayloadExp(1)
    /\ clock = 2
    /\ jam_call.out.ok
    /\ jam_call.out.value = jam_call.payload

(***************************************************************************)
(* Properties of the session stores.                                       *)
(***************************************************************************)
\* the store is one of the current tree: RedisSessions or JSONSessions
SesCurrent == ses_inst # None /\ ses_inst.backend \in {"redis", "json"}

\* a get of such a store has just returned or raised
SesGot == SesCurrent /\ ses_call.op = "get"

\* the session of the id lives in the history and its TTL has not elapsed
SesRetrievable(log, id) ==
    LogLive(log, id) /\ ~LogExpired(ses_inst, LogEntry(log, id), clock)

\* C25: get(id) returns exactly the data most recently written for id by
\* create or update (the empty mapping included, with and without
\* encryption), and returns None for an id that was never created or has
\* been deleted.
C25_GetReturnsWritten ==
    SesGot =>
        /\ SesRetrievable(ses_log, ses_call.session_id)
              => ses_call.out = Return(LogEntry(ses_log, ses_call.session_id).data, <<>>)
        /\ ~LogLive(ses_log, ses_call.session_id)
              => ses_call.out = Return(None, <<>>)

\* C25: get returned None for a session that was created under the key
\* "a:b", never removed and has not expired.
C25_ColonKeySessionLost ==
    /\ SesGot
    /\ SesRetrievable(ses_log, ses_call.session_id)
    /\ LogEntry(ses_log, ses_call.session_id).key = <<"a", Colon, "b">>
    /\ ses_call.out = Return(None, <<>>)

\* the step is a call of RedisSessions.update
SesRedisUpdated == ses_inst.backend = "redis" /\ ses_call'.op = "update"

\* what get(id) returns in the state the step leads to
SesGetAfter(id) == Sessions_get(ses_inst', ses_db', clock', id).out

\* C26: RedisSessions.update(id, data) raises JamSessionNotFound if and only
\* if no session with that id exists; for every existing session it replaces
\* the stored data, so that a following get(id) returns data.
C26_UpdateRaisesIffAbsent ==
    [][SesRedisUpdated =>
          /\ ses_call'.out = SessionNotFound
                <=> ~SesRetrievable(ses_log, ses_call'.session_id)
          /\ SesRetrievable(ses_log, ses_call'.session_id)
                => SesGetAfter(ses_call'.session_id) = Return(ses_call'.data, <<>>)]_vars

\* C26: update raised JamSessionNotFound for a session that was created
\* under the key "u" with the empty mapping as its data, never removed and
\* has not expired.
C26_EmptySessionNotFound ==
    /\ ses_inst # None
    /\ ses_inst.backend = "redis"
    /\ ses_call.op = "update"
    /\ ses_call.out = SessionNotFound
    /\ SesRetrievable(ses_log, ses_call.session_id)
    /\ LogEntry(ses_log, ses_call.session_id).key = <<"u">>
    /\ LogEntry(ses_log, ses_call.session_id).data = EmptyDict

\* the step is a call of rework
SesReworked == SesCurrent /\ ses_call'.op = "rework"

\* the error a store raises for a session it does not find
SessionNotFoundErrors == {"JamSessionNotFound", "SessionNotFoundError"}

\* C27: rework(id) on an existing session returns a new id different from id
\* such that get(new id) returns the data the session held and get(id)
\* returns None afterwards; on an id for which no session exists it raises
\* the session-not-found error and creates no session.
C27_ReworkMovesSession ==
    [][SesReworked =>
          IF SesRetrievable(ses_log, ses_call'.session_id)
          THEN /\ ses_call'.out.ok
               /\ ses_call'.out.value # ses_call'.session_id
               /\ SesGetAfter(ses_call'.out.value)
                      = Return(LogEntry(ses_log, ses_call'.session_id).data, <<>>)
               /\ SesGetAfter(ses_call'.session_id) = Return(None, <<>>)
          ELSE /\ ~ses_call'.out.ok
               /\ ses_call'.out.err[1] \in SessionNotFoundErrors
               /\ Sessions_expire(ses_inst, ses_db', clock)
                      = Sessions_expire(ses_inst, ses_db, clock)]_vars

\* C27: RedisSessions.rework raised JamSessionNotFound for a session that was
\* created under the key "u" with the empty mapping as its data, never
\* removed and has not expired.
C27_EmptySessionNotReworked ==
    /\ ses_inst # None
    /\ ses_inst.backend = "redis"
    /\ ses_call.op = "rework"
    /\ ses_call.out = SessionNotFound
    /\ SesRetrievable(ses_log, ses_call.session_id)
    /\ LogEntry(ses_log, ses_call.session_id).key = <<"u">>
    /\ LogEntry(ses_log, ses_call.session_id).data = EmptyDict

\* the step is a call of clear
SesCleared == SesCurrent /\ ses_call'.op = "clear"

\* what get(id) returns in the state the step starts from
SesGetBefore(id) == Sessions_get(ses_inst, ses_db, clock, id).out

\* C28: clear(session_key) removes every session created under session_key,
\* so that get returns None for each of them, and leaves every session
\* created under any other key as it was: get returns for it what it
\* returned before the call.
C28_ClearRemovesOneKey ==
    [][SesCleared =>
          \A e \in ses_log :
              IF e.key = ses_call'.session_key
              THEN SesGetAfter(e.id) = Return(None, <<>>)
              ELSE SesGetAfter(e.id) = SesGetBefore(e.id)]_vars

\* C28: a clear has removed a session of its key, and a session created
\* under another key is in the store with the data written for it.
C28_ClearedOneKeptOther ==
    /\ SesCurrent
    /\ ses_call.op = "clear"
    /\ ses_call.removed # {}
    /\ \E e \in ses_log :
          /\ e.key # ses_call.session_key
          /\ SesRetrievable(ses_log, e.id)
          /\ Sessions_get(ses_inst, ses_db, clock, e.id).out = Return(e.data, <<>>)

\* the call returned the data of a session
ReturnsData(out) == out.ok /\ out.value # None

\* the session a create or an update that succeeded has just written
SesWritten ==
    IF ses_call.op = "create" THEN ses_call.out.value ELSE ses_call.session_id

\* what get(id) returns from the present store when the clock shows now
SesGetAt(id, now) == Sessions_get(ses_inst, ses_db, now, id).out

\* C29: with a TTL configured a session is retrievable only until the TTL
\* has elapsed since it was created or last updated: a get past the expiry
\* of a session returns no data, and a create or an update at the time t
\* leaves the session retrievable at every time before t + TTL and at no
\* time after it.
C29_ExpiryFollowsLastWrite ==
    (ses_inst # None /\ HasTTL(ses_inst)) =>
        /\ (/\ ses_call.op = "get"
            /\ LogHas(ses_log, ses_call.session_id)
            /\ clock > LogEntry(ses_log, ses_call.session_id).at + ses_inst.ttl)
              => ~ReturnsData(ses_call.out)
        /\ (ses_call.op \in {"create", "update"} /\ ses_call.out.ok)
              => \A now \in clock..(SesMaxClock + SesTTL + 1) :
                    /\ now < clock + ses_inst.ttl => ReturnsData(SesGetAt(SesWritten, now))
                    /\ now > clock + ses_inst.ttl
                          => SesGetAt(SesWritten, now) = Return(None, <<>>)

\* C29: RedisSessions.update has written a session last written some seconds
\* before: the session is retrievable a second before the TTL has elapsed
\* since the update, when the TTL has elapsed since the earlier write, and
\* is not retrievable a second after.
C29_UpdateRestartedTTL ==
    /\ ses_inst # None
    /\ ses_inst.backend = "redis"
    /\ HasTTL(ses_inst)
    /\ ses_call.op = "update"
    /\ ses_call.out.ok
    /\ ses_call.age > 0
    /\ SesGetAt(ses_call.session_id, clock + ses_inst.ttl - 1)
          = Return(ses_call.data, <<>>)
    /\ SesGetAt(ses_call.session_id, clock + ses_inst.ttl + 1) = Return(None, <<>>)

\* the rework and the other client's call have both ended
RwBothDone ==
    /\ ses_procs # None
    /\ ses_procs.rework.pc = "done"
    /\ ses_procs.other.pc = "done"

\* the other client's call, run whole on the store db
RwOtherWhole(inst, db) ==
    IF ses_log.other.op = "delete"
    THEN RedisSessions_delete(inst, db, clock, ses_log.session_id)
    ELSE RedisSessions_update(inst, db, clock, ses_log.session_id, ses_log.other.data)

\* the stores the two calls leave when one runs whole after the other
RwReworkFirst ==
    LET reworked == RedisSessions_rework(ses_log.inst, ses_log.db, clock,
                                         ses_log.session_id)
    IN  RwOtherWhole(reworked.inst, reworked.db).db

RwOtherFirst ==
    LET other == RwOtherWhole(ses_log.inst, ses_log.db)
    IN  RedisSessions_rework(other.inst, other.db, clock, ses_log.session_id).db

\* C30: RedisSessions.rework(id) is atomic with respect to a concurrent
\* delete(id) or update(id, d) of another client: every interleaving of the
\* two calls ends in a store that running them one after the other, in one
\* of the two orders, ends in.
C30_ReworkAtomic ==
    RwBothDone => ses_db \in {RwReworkFirst, RwOtherFirst}

\* C30: a rework and an update of the same session have both returned
\* without an error, and the store holds two sessions: the new id with the
\* data from before the update, and the old id with the updated data.
C30_SessionDuplicated ==
    /\ RwBothDone
    /\ ses_log.other.op = "update"
    /\ ses_procs.rework.out.ok
    /\ ses_procs.other.out.ok
    /\ Cardinality(ses_db) = 2
    /\ ~(ses_db \in {RwReworkFirst, RwOtherFirst})

=============================================================================
